---- MODULE Spec2Model ----
(***************************************************************************)
(* Verification model of agent-analytics: the session store of the         *)
(* embedded SQLite adapter (events / sessions tables, session upsert) and   *)
(* the multi-tenant request handlers (project cache, rate limit, deferred   *)
(* writes) running against the D1 adapter.                                  *)
(***************************************************************************)
EXTENDS Integers, Sequences, FiniteSets, Bags, TLC

\* SQL NULL / JS null / JS undefined
NULL == "null"

(***************************************************************************)
(* Bounds of the model                                                     *)
(***************************************************************************)
\* client timestamps lie in 1..MaxTs; the adapter's clock reads MaxTs
MaxTs == 3
\* at most MaxEvents event rows are ever inserted
MaxEvents == 3
\* a batch handed to trackBatch holds 1..MaxBatch events
MaxBatch == 2
\* at most MaxUpserts direct upsertSession calls are made
MaxUpserts == 2
\* at most MaxRequests HTTP requests are started
MaxRequests == 3
\* the clock advances at most MaxClock ticks of half a cache TTL each
MaxClock == 3
\* rate_limit_events of every project row (the code's default is 10000)
RateLimitEvents == 2
\* the static lists handed to the validators directly hold at most MaxStr characters
MaxStr == 3

VARIABLES
  events,     \* events table: bag of rows (the ULID primary key is left out)
  sessions,   \* sessions table: function session_id -> row (domain: existing rows)
  contrib,    \* history: session_id -> set of timestamps handed to _upsertSession
  upserts,    \* history: number of direct upsertSession calls made
  dbResult,   \* outcome of the last adapter call: "ok" or "error" (it threw)
  \* ---- the request handlers (handlers.js) on the D1 adapter ----
  clock,          \* ticks elapsed; Date.now() is clock * MsPerTick
  projects,       \* projects table: the ids of the rows
  usage,          \* usage table, today's rows: project id -> [event_count, read_count]
  d1Events,       \* events table of D1: project_id (what the body named) -> number of rows
  projectsCache,  \* module variable projectsCache: [loaded, ids]; loaded = FALSE is null
  cacheLoadedAt,  \* module variable cacheLoadedAt (ms)
  req,            \* the requests being handled: slot -> record
  resp,           \* the response handleRequest returned last, with what led to it
  lastAuth,       \* history: the cache the last authentication used, and the
                  \* acknowledged projects when its request arrived
  tasks,          \* bag of the pending writeOps handed to the platform
  started,        \* history: number of requests started
  acked,          \* history: ids of the projects whose creation was answered with 201
  dirty,          \* history: invalidateCache() ran and no request has started since
  unhandled,      \* history: some writeOps promise settled as rejected
  env,            \* the environment: [projectTokens, apiKeys], the static lists
  secrets,        \* projects table: id -> [project_token, api_key, owner_email] of the row
  authCall,       \* the last direct call of a validator: its arguments and result
  queryCall,      \* the /query request handled: its body, the compiled plan, the answer
  analyticsQueue, \* env.ANALYTICS_QUEUE: the events it holds, with the history of the
                  \* enqueue chains and of the last call of the consumer
  deleted         \* history: ids of the projects whose deletion was answered with 200

sessionVars == <<events, sessions, contrib, upserts, dbResult>>

handlerVars == <<clock, projects, usage, d1Events, projectsCache, cacheLoadedAt, req,
                 resp, lastAuth, tasks, started, acked, dirty, unhandled, env, secrets>>

authVars == <<authCall, queryCall, analyticsQueue, deleted>>

vars == <<events, sessions, contrib, upserts, dbResult, clock, projects, usage, d1Events,
          projectsCache, cacheLoadedAt, req, resp, lastAuth, tasks, started, acked, dirty,
          unhandled, env, secrets, authCall, queryCall, analyticsQueue, deleted>>

(***************************************************************************)
(* Input domains of the session store                                      *)
(***************************************************************************)
SessionIds == {"s1", "s2"}

ProjectNames == {"pA", "pB"}

Timestamps == 1..MaxTs

\* Date.now() as the adapter reads it: client timestamps are not in the future
DateNow == MaxTs

\* event.properties: absent, or an object with optional path and url
NoProperties == [kind |-> "absent", path |-> NULL, url |-> NULL]

PathAndUrl == [kind |-> "object", path |-> "/a", url |-> "/u"]

UrlOnly == [kind |-> "object", path |-> NULL, url |-> "/b"]

EmptyObject == [kind |-> "object", path |-> NULL, url |-> NULL]

\* Events as handed to trackEvent or held in a trackBatch array.
\* timestamp = 0 stands for an absent (falsy) timestamp; event = NULL violates
\* the NOT NULL constraint of events.event.
SessionEvents ==
  [ project : {"pA"}, event : {"view"}, properties : {PathAndUrl, UrlOnly, EmptyObject},
    session_id : {"s1"}, timestamp : Timestamps ]
  \cup
  [ project : {"pA"}, event : {"view"}, properties : {NoProperties},
    session_id : {"s2"}, timestamp : {0, 1} ]
  \cup
  [ project : {"pB"}, event : {"view"}, properties : {NoProperties},
    session_id : {"s1"}, timestamp : {1} ]

PlainEvents ==
  [ project : {"pA"}, event : {"view"}, properties : {NoProperties},
    session_id : {NULL, ""}, timestamp : {1} ]

BadEvents ==
  [ project : {"pA"}, event : {NULL}, properties : {NoProperties},
    session_id : {NULL, "s1"}, timestamp : {1} ]

EventInputs == SessionEvents \cup PlainEvents \cup BadEvents

\* the events the arrays handed to trackBatch are made of
BatchEvents ==
  [ project : {"pA"}, event : {"view"}, properties : {UrlOnly},
    session_id : {"s1"}, timestamp : {2} ]
  \cup
  [ project : {"pA"}, event : {"view", NULL}, properties : {NoProperties},
    session_id : {"s2", NULL}, timestamp : {0} ]

Batches == UNION { [1..n -> BatchEvents] : n \in 1..MaxBatch }

\* the sessionData handed to upsertSession; _count = 0 stands for an absent _count
SessionData ==
  [ project : {"pA"}, session_id : SessionIds, timestamp : {0, 1, 2},
    properties : {UrlOnly}, _count : {0, 1, 2} ]

\* the smaller event set of the specification that mixes in direct upserts
FewEvents ==
  [ project : {"pA"}, event : {"view"}, properties : {PathAndUrl},
    session_id : {"s1", NULL}, timestamp : {1, MaxTs} ]

FewBatches == UNION { [1..n -> { e \in FewEvents : e.timestamp = 1 }] : n \in 1..MaxBatch }

(***************************************************************************)
(* JavaScript and SQL helpers                                              *)
(***************************************************************************)
\* JS truthiness of a string-or-null value / of a number (0: absent or zero)
Truthy(x) == x # NULL /\ x # ""

TruthyNum(n) == n # 0

\* JS  a || b  on string-or-null values / on numbers
JsOr(a, b) == IF Truthy(a) THEN a ELSE b

JsOrNum(a, b) == IF TruthyNum(a) THEN a ELSE b

\* mutant of Min: the stored value is kept, the incoming one ignored
MinKeepsStored(a, b) == a

\* SQLite scalar MIN / MAX of two integers
Min(a, b) == IF a <= b THEN a ELSE b

Max(a, b) == IF a >= b THEN a ELSE b

(***************************************************************************)
(* SqliteAdapter: the session upsert                                       *)
(***************************************************************************)
\* page = properties.path || properties.url || null, for an object
Page(properties) ==
  IF properties.kind = "object"
    THEN JsOr(JsOr(properties.path, properties.url), NULL)
    ELSE NULL

\* count = event_data._count || 1
Count(c) == JsOrNum(c, 1)

\* mutant of InsertedRow: the page is bound to exit_page only
InsertedRowNoEntry(project, ts, page, count) ==
  [ project_id |-> project, start_time |-> ts, end_time |-> ts, duration |-> 0,
    entry_page |-> NULL, exit_page |-> page, event_count |-> count, is_bounce |-> 1 ]

\* VALUES (?, ?, ?, ts, ts, 0, page, page, count, 1, ?): the row of a new session
InsertedRow(project, ts, page, count) ==
  [ project_id |-> project, start_time |-> ts, end_time |-> ts, duration |-> 0,
    entry_page |-> page, exit_page |-> page, event_count |-> count, is_bounce |-> 1 ]

\* mutant of EntryPage: the last writer wins
EntryPageLastWins(old, ts, page) == page

\* entry_page = CASE WHEN excluded.start_time < sessions.start_time ...
EntryPage(old, ts, page) ==
  IF ts < old.start_time THEN page ELSE old.entry_page

\* exit_page = CASE WHEN excluded.end_time >= sessions.end_time ...
ExitPage(old, ts, page) ==
  IF ts >= old.end_time THEN page ELSE old.exit_page

\* mutant of EventCount: a read-then-write that loses the stored count
EventCountOverwrites(old, count) == count

\* event_count = sessions.event_count + excluded.event_count
EventCount(old, count) == old.event_count + count

\* is_bounce = CASE WHEN sessions.event_count + excluded.event_count > 1 THEN 0 ELSE 1
IsBounce(old, count) == IF old.event_count + count > 1 THEN 0 ELSE 1

\* ON CONFLICT(session_id) DO UPDATE SET ...: project_id is not in the SET list
UpdatedRow(old, ts, page, count) ==
  [ project_id |-> old.project_id,
    start_time |-> Min(old.start_time, ts),
    end_time   |-> Max(old.end_time, ts),
    duration   |-> Max(old.end_time, ts) - Min(old.start_time, ts),
    entry_page |-> EntryPage(old, ts, page),
    exit_page  |-> ExitPage(old, ts, page),
    event_count |-> EventCount(old, count),
    is_bounce  |-> IsBounce(old, count) ]

\* _upsertSession: one INSERT ... ON CONFLICT DO UPDATE statement on table sess
UpsertRow(sess, project, sid, ts, page, count) ==
  IF sid \in DOMAIN sess
    THEN [sess EXCEPT ![sid] = UpdatedRow(sess[sid], ts, page, count)]
    ELSE (sid :> InsertedRow(project, ts, page, count)) @@ sess

\* the row INSERT INTO events stores for e, with ts = timestamp || Date.now()
EventRow(e, ts) ==
  [ project_id |-> e.project, event |-> e.event, properties |-> e.properties,
    session_id |-> JsOr(e.session_id, NULL), timestamp |-> ts ]

\* ts = timestamp || Date.now(), Date.now() returning now
Ts(timestamp, now) == JsOrNum(timestamp, now)

\* the INSERT INTO events throws on a NOT NULL violation
InsertThrows(e) == e.event = NULL \/ e.project = NULL

\* _upsertSession(project, event_data) as trackEvent and trackBatch call it:
\* event_data carries no _count
UpsertEvent(sess, e, ts) ==
  UpsertRow(sess, e.project, e.session_id, ts, Page(e.properties), Count(0))

\* trackBatch, second loop: for (const e of evts) { if (!e.session_id) continue; ... }
RECURSIVE UpsertAll(_, _, _, _)
UpsertAll(sess, evts, i, now) ==
  IF i > Len(evts) THEN sess
  ELSE UpsertAll(
         IF Truthy(evts[i].session_id)
           THEN UpsertEvent(sess, evts[i], Ts(evts[i].timestamp, now))
           ELSE sess,
         evts, i + 1, now)

\* trackBatch, first loop: the rows inserted for evts
RECURSIVE InsertAll(_, _, _, _)
InsertAll(ev, evts, i, now) ==
  IF i > Len(evts) THEN ev
  ELSE InsertAll(ev (+) SetToBag({EventRow(evts[i], Ts(evts[i].timestamp, now))}),
                 evts, i + 1, now)

\* history: the timestamps evts hand to _upsertSession for session sid
BatchTimestamps(evts, sid, now) ==
  { Ts(evts[i].timestamp, now) : i \in { j \in 1..Len(evts) : evts[j].session_id = sid } }

\* number of event rows carrying session_id sid
EventsOf(sid) ==
  LET rows == { r \in BagToSet(events) : r.session_id = sid }
      RECURSIVE Sum(_)
      Sum(S) == IF S = {} THEN 0
                ELSE LET r == CHOOSE x \in S : TRUE
                     IN CopiesIn(r, events) + Sum(S \ {r})
  IN Sum(rows)

(***************************************************************************)
(* SqliteAdapter: the operations.  better-sqlite3 is synchronous and the   *)
(* async methods hold no await, so each call runs to completion as one step *)
(***************************************************************************)

\* mutant of Transaction: what the statements wrote before the throw stays
Untransacted(before, partial, threw) == partial

\* this.db.transaction(fn)(): fn's writes are committed, or rolled back when fn
\* throws; before: the table at BEGIN, partial: the table when fn ended or threw
Transaction(before, partial, threw) == IF threw THEN before ELSE partial

\* the entries of evts that carry a session_id, in order
RECURSIVE WithSession(_)
WithSession(evts) ==
  IF evts = <<>> THEN <<>>
  ELSE (IF Truthy(Head(evts).session_id) THEN <<Head(evts)>> ELSE <<>>)
         \o WithSession(Tail(evts))

\* the statements a call runs before the store fails: fail = 0, no failure;
\* fail = k, the k-th statement of the call throws (disk full, SQLITE_BUSY)
FailPoints == 0..(2 * MaxBatch)

\* trackEvent({ project, event, properties, user_id, session_id, timestamp }):
\* without session_id one INSERT; with it a transaction of the INSERT and the
\* session upsert
TrackEvent(e, fail) ==
  /\ BagCardinality(events) < MaxEvents
  /\ fail <= (IF Truthy(e.session_id) THEN 2 ELSE 1)
  /\ LET ts == Ts(e.timestamp, DateNow)
         insertThrew == InsertThrows(e) \/ fail = 1
         threw == insertThrew \/ fail = 2
         inserted == IF insertThrew THEN events
                     ELSE events (+) SetToBag({EventRow(e, ts)})
         upserted == IF threw THEN sessions ELSE UpsertEvent(sessions, e, ts)
     IN /\ dbResult' = IF threw THEN "error" ELSE "ok"
        /\ IF ~Truthy(e.session_id)
             THEN /\ events' = inserted
                  /\ UNCHANGED <<sessions, contrib>>
             ELSE /\ events' = Transaction(events, inserted, threw)
                  /\ sessions' = Transaction(sessions, upserted, threw)
                  /\ contrib' = IF threw THEN contrib
                                ELSE [contrib EXCEPT ![e.session_id] = @ \cup {ts}]
  /\ UNCHANGED <<upserts, handlerVars, authVars>>

\* trackBatch(events): one transaction, all inserts and then all upserts
TrackBatch(evts, fail) ==
  /\ BagCardinality(events) + Len(evts) <= MaxEvents
  /\ fail <= Len(evts) + Len(WithSession(evts))
  /\ LET n == Len(evts)
         bad == {i \in 1..n : InsertThrows(evts[i]) \/ fail = i}
         stop == IF bad = {} THEN n + 1 ELSE CHOOSE i \in bad : \A j \in bad : i <= j
         inserted == InsertAll(events, SubSeq(evts, 1, stop - 1), 1, DateNow)
         ups == WithSession(evts)
         done == IF stop <= n THEN 0
                 ELSE IF fail > n THEN fail - n - 1
                 ELSE Len(ups)
         upserted == UpsertAll(sessions, SubSeq(ups, 1, done), 1, DateNow)
         threw == stop <= n \/ fail > n
     IN /\ dbResult' = IF threw THEN "error" ELSE "ok"
        /\ events' = Transaction(events, inserted, threw)
        /\ sessions' = Transaction(sessions, upserted, threw)
        /\ contrib' = IF threw THEN contrib
                      ELSE [s \in SessionIds |->
                              contrib[s] \cup BatchTimestamps(evts, s, DateNow)]
  /\ UNCHANGED <<upserts, handlerVars, authVars>>

\* upsertSession(sessionData)
UpsertSession(d) ==
  /\ upserts < MaxUpserts
  /\ LET ts == Ts(d.timestamp, DateNow) IN
     /\ sessions' = UpsertRow(sessions, d.project, d.session_id, ts,
                              Page(d.properties), Count(d._count))
     /\ contrib' = [contrib EXCEPT ![d.session_id] = @ \cup {ts}]
  /\ upserts' = upserts + 1
  /\ dbResult' = "ok"
  /\ UNCHANGED <<events, handlerVars, authVars>>

(***************************************************************************)
(* handlers.js on the D1 adapter: input domains                            *)
(***************************************************************************)
\* the slots in which requests are handled concurrently
ReqIds == {1, 2}

\* ids of project rows; the first exists from the start, create adds the next
ProjectIds == {"p1", "p2"}

\* A JS string is the sequence of its characters; an absent (undefined, null)
\* string is the empty sequence: at every use in auth.js and handlers.js a token
\* or key is only tested for truthiness before it is compared.
NoString == <<>>

\* project_token of a project row (generateToken('aat'))
TokenOf(p) ==
  CASE p = "p1" -> <<"1">> [] p = "p3" -> <<"3">> [] p = "p4" -> <<"4">> [] OTHER -> <<"2">>

\* api_key of a project row (generateToken('aak'))
KeyOf(p) ==
  CASE p = "p1" -> <<"k">> [] p = "p3" -> <<"r">> [] p = "p4" -> <<"s">> [] OTHER -> <<"q">>

\* name of a project row: what the tracker snippet sends as body.project
NameOf(p) == IF p = "p1" THEN "site" ELSE "shop"

\* a token no project has
BadToken == <<"x">>

\* the token a request body carries: a project's, an unknown one, none
Tokens == { TokenOf(p) : p \in ProjectIds } \cup {BadToken, NoString}

\* body.project of the tracked events
BodyProjects == {"site", "shop"}

\* the values of the project_id column of events: a name a body gave; the
\* rows DELETE ... WHERE project_id = <id> removes are those named by an id
EventProjects == BodyProjects \cup ProjectIds

\* the owner_email of a project's row
OwnerOf(p) == IF p = "p1" THEN "a@x" ELSE "b@x"

CACHE_TTL_MS == 60000

\* one tick of the clock is half a TTL
MsPerTick == CACHE_TTL_MS \div 2

\* Date.now()
Now == clock * MsPerTick

\* events.length > MaxBatchSize is refused
MaxBatchSize == 100

\* the lengths of the events array of a batch
BatchSizes == 0..MaxBatch \cup {MaxBatchSize, MaxBatchSize + 1}

\* the read endpoints that take the project as a parameter
ReadKinds == {"stats", "events", "query", "properties"}

\* the requests: POST /track, POST /track/batch, POST /projects and the reads.
\* valid: the body holds project and event (track), name and email (projects);
\* tsOk: the timestamp is absent or a number new Date() accepts;
\* body: body.project (track) or the project of the events (batch);
\* events: body.events is an array, absent, or something else; n: events.length;
\* eventToken: events[0].token; eventsOk: every entry holds project and event;
\* key: X-API-Key header || ?key=; param: the project parameter of a read, the
\* email of POST /projects
TrackRequests ==
  [ kind : {"track"}, token : Tokens, valid : BOOLEAN, tsOk : BOOLEAN, n : {1},
    body : BodyProjects, events : {"array"}, eventToken : {NoString}, eventsOk : {TRUE},
    key : {NoString}, param : {NULL} ]

BatchRequests ==
  [ kind : {"batch"}, token : Tokens, valid : {TRUE}, tsOk : BOOLEAN, n : BatchSizes,
    body : BodyProjects, events : {"array", "absent", "other"}, eventToken : Tokens,
    eventsOk : BOOLEAN, key : {NoString}, param : {NULL} ]

CreateRequests ==
  [ kind : {"create"}, token : {NoString}, valid : BOOLEAN, tsOk : {TRUE}, n : {1},
    body : {"site"}, events : {"array"}, eventToken : {NoString}, eventsOk : {TRUE},
    key : {NoString}, param : {"b@x"} ]

\* the ingestion requests of the specification of the rate limit
IngestRequests ==
  { i \in TrackRequests \cup BatchRequests :
      /\ i.token \in {TokenOf("p1"), BadToken}
      /\ i.valid
      /\ i.n \in 1..MaxBatch
      /\ i.body = "site" /\ i.events = "array" /\ i.eventToken = NoString /\ i.eventsOk
      /\ i.token = BadToken => (i.kind = "track" /\ i.tsOk) }

\* the requests of the specification of the project cache
CacheRequests ==
  { i \in TrackRequests \cup CreateRequests :
      /\ i.valid /\ i.tsOk
      /\ i.body = "site"
      /\ i.token \in {TokenOf("p2"), NoString} }

\* the batches of the specification of batch validation: any shape of the events
\* field; a batch of one event with any pair of top-level and first-event token;
\* a full batch of MaxBatchSize events with a token of no project
BatchShapes ==
  { i \in BatchRequests :
      /\ i.tsOk /\ i.body = "site"
      /\ i.token # TokenOf("p2") /\ i.eventToken # TokenOf("p2")
      /\ i.events # "array" => (i.n = 0 /\ i.eventToken = NoString /\ i.eventsOk)
      /\ i.n \in {0, 1, MaxBatchSize, MaxBatchSize + 1}
      /\ i.n # 1 => i.eventToken = NoString
      /\ i.n = 0 => i.eventsOk
      /\ i.n = MaxBatchSize => (i.token = BadToken /\ i.eventToken = NoString) }

\* the requests of the specification of open and closed ingestion: /track with
\* and without the required fields, with p1's token, an unknown token or none,
\* for either project name, and the creation of a project
TrackShapes ==
  { i \in TrackRequests \cup CreateRequests :
      /\ i.token # TokenOf("p2")
      /\ i.kind = "create" => i.valid
      /\ ~i.valid => (i.tsOk /\ i.body = "site") }

\* the keys a read request presents: a project's key, a member of the static
\* list "a,b", the whole list, a project's token, none
Keys ==
  { KeyOf(p) : p \in ProjectIds } \cup {<<"a">>, <<"a", ",", "b">>, TokenOf("p1"), NoString}

\* GET /stats, /events, /properties, POST /query: param is the project parameter
\* (body.project of a query); GET /projects/:id/usage: param is the id
ReadRequests ==
  [ kind : ReadKinds, token : {NoString}, valid : {TRUE}, tsOk : {TRUE}, n : {1},
    body : {"site"}, events : {"array"}, eventToken : {NoString}, eventsOk : {TRUE},
    key : Keys, param : BodyProjects \cup {NULL} ]
  \cup
  [ kind : {"usage"}, token : {NoString}, valid : {TRUE}, tsOk : {TRUE}, n : {1},
    body : {"site"}, events : {"array"}, eventToken : {NoString}, eventsOk : {TRUE},
    key : Keys, param : ProjectIds ]

\* the reads of the specification of read authorization: /stats with every key
\* but p2's and every project parameter, the other endpoints with p1's key or
\* none, asking for the other project
ReadShapes ==
  { i \in ReadRequests :
      /\ i.key # KeyOf("p2")
      /\ i.kind # "stats" =>
           /\ i.key \in {KeyOf("p1"), NoString}
           /\ i.param \in {"shop", "p2"} }

\* the requests of the specification of usage and deletion, all of project p1
\* or about it: /track and a batch of two with p1's token, naming the project
\* by a name or by p1's id; /stats with p1's key; DELETE /projects/p1 with the
\* key of p1, of p2 (another owner) or none
TenantShapes ==
  [ kind : {"track"}, token : {TokenOf("p1")}, valid : {TRUE}, tsOk : {TRUE}, n : {1},
    body : {"site", "p1"}, events : {"array"}, eventToken : {NoString}, eventsOk : {TRUE},
    key : {NoString}, param : {NULL} ] \cup
  [ kind : {"batch"}, token : {TokenOf("p1")}, valid : {TRUE}, tsOk : {TRUE}, n : {2},
    body : {"site"}, events : {"array"}, eventToken : {NoString}, eventsOk : {TRUE},
    key : {NoString}, param : {NULL} ] \cup
  [ kind : {"stats"}, token : {NoString}, valid : {TRUE}, tsOk : {TRUE}, n : {1},
    body : {"site"}, events : {"array"}, eventToken : {NoString}, eventsOk : {TRUE},
    key : {KeyOf("p1")}, param : {"site"} ] \cup
  [ kind : {"delete"}, token : {NoString}, valid : {TRUE}, tsOk : {TRUE}, n : {1},
    body : {"site"}, events : {"array"}, eventToken : {NoString}, eventsOk : {TRUE},
    key : {KeyOf("p1"), KeyOf("p2"), NoString}, param : {"p1"} ]

\* the characters of the strings handed to the validators directly
Chars == {"1", "x", ",", " "}

\* the strings of at most n characters
StringsUpTo(n) == UNION { [1..k -> Chars] : k \in 0..n }

\* no validator is called directly
NoCall ==
  [ fn |-> NULL, token |-> NoString, list |-> NoString, ids |-> {}, valid |-> FALSE,
    origin |-> NoString, allowed |-> NoString ]

\* the input of no request
NoInput ==
  [ kind |-> NULL, token |-> NoString, valid |-> TRUE, tsOk |-> TRUE, n |-> 0,
    body |-> "site", events |-> "array", eventToken |-> NoString, eventsOk |-> TRUE,
    key |-> NoString, param |-> NULL ]

\* the record of a slot that handles nothing
IdleReq ==
  [ pc |-> "idle", kind |-> NULL, token |-> NoString, valid |-> TRUE, tsOk |-> TRUE, n |-> 0,
    now |-> 0, snapshot |-> {}, acked |-> {}, gone |-> {}, project |-> NULL,
    input |-> NoInput ]

\* no response yet
NoResp ==
  [ kind |-> NULL, status |-> 0, project |-> NULL, usageSeen |-> 0, limit |-> 0,
    accepted |-> FALSE, writeOps |-> 0, input |-> NoInput, data |-> NULL, error |-> NULL ]

(***************************************************************************)
(* auth.js and the D1 adapter                                              *)
(***************************************************************************)
\* ctx.projectsCache.get(`aat:${bodyToken}`): the project of the cache ids whose
\* token it is, or NULL
CacheGet(ids, token) ==
  IF \E p \in ids : TokenOf(p) = token
    THEN CHOOSE p \in ids : TokenOf(p) = token
    ELSE NULL

\* a JS string is truthy unless it is empty (or absent)
TruthyStr(s) == s # NoString

\* a || b on strings
JsOrStr(a, b) == IF TruthyStr(a) THEN a ELSE b

\* s.split(','): the pieces of s between its commas
RECURSIVE Split(_)
Split(s) ==
  IF \A i \in 1..Len(s) : s[i] # ","
    THEN <<s>>
    ELSE LET i == CHOOSE j \in 1..Len(s) : s[j] = "," /\ \A k \in 1..(j - 1) : s[k] # ","
         IN <<SubSeq(s, 1, i - 1)>> \o Split(SubSeq(s, i + 1, Len(s)))

\* t.trim(): t without its leading and trailing white space
RECURSIVE Trim(_)
Trim(t) ==
  IF t # <<>> /\ Head(t) = " " THEN Trim(Tail(t))
  ELSE IF t # <<>> /\ t[Len(t)] = " " THEN Trim(SubSeq(t, 1, Len(t) - 1))
  ELSE t

\* array.includes(x)
Includes(array, x) == \E i \in 1..Len(array) : array[i] = x

\* mutant of TokenList: the entries are taken as the characters of the string
TokenListOfChars(projectTokensStr) == [i \in 1..Len(projectTokensStr) |-> <<projectTokensStr[i]>>]

\* projectTokensStr.split(',').map(t => t.trim())
TokenList(projectTokensStr) ==
  LET parts == Split(projectTokensStr) IN [i \in 1..Len(parts) |-> Trim(parts[i])]

\* validateProjectToken(bodyToken, projectTokensStr, ctx); ids are the projects of
\* ctx.projectsCache
ValidateProjectToken(token, projectTokensStr, ids) ==
  IF TruthyStr(token) /\ CacheGet(ids, token) # NULL
    THEN [valid |-> TRUE, project |-> CacheGet(ids, token), error |-> NULL]
  ELSE IF ~TruthyStr(projectTokensStr) /\ ~(Cardinality(ids) > 0)
    THEN [valid |-> TRUE, project |-> NULL, error |-> NULL]
  ELSE IF ~TruthyStr(token)
    THEN [valid |-> FALSE, project |-> NULL, error |-> "token required"]
  ELSE IF TruthyStr(projectTokensStr) /\ Includes(TokenList(projectTokensStr), token)
    THEN [valid |-> TRUE, project |-> NULL, error |-> NULL]
  ELSE [valid |-> FALSE, project |-> NULL, error |-> "invalid token"]

\* ctx.projectsCache.get(`aak:${apiKey}`): the project of the cache ids whose
\* api_key it is, or NULL
CacheGetKey(ids, apiKey) ==
  IF \E p \in ids : KeyOf(p) = apiKey
    THEN CHOOSE p \in ids : KeyOf(p) = apiKey
    ELSE NULL

\* mutant of StaticKey: reads are open while no key list is set
StaticKeyOrOpen(apiKeysStr, apiKey) ==
  ~TruthyStr(apiKeysStr) \/ Includes(Split(apiKeysStr), apiKey)

\* apiKeysStr && apiKeysStr.split(',').includes(apiKey)
StaticKey(apiKeysStr, apiKey) ==
  TruthyStr(apiKeysStr) /\ Includes(Split(apiKeysStr), apiKey)

\* validateApiKey(request, url, apiKeysStr, ctx); apiKey is the X-API-Key header
\* || the key parameter
ValidateApiKey(apiKey, apiKeysStr, ids) ==
  IF ~TruthyStr(apiKey)
    THEN [valid |-> FALSE, project |-> NULL]
  ELSE IF CacheGetKey(ids, apiKey) # NULL
    THEN [valid |-> TRUE, project |-> CacheGetKey(ids, apiKey)]
  ELSE IF StaticKey(apiKeysStr, apiKey)
    THEN [valid |-> TRUE, project |-> NULL]
  ELSE [valid |-> FALSE, project |-> NULL]

\* makeValidateWrite(projectTokensStr)(_request, body) of the single-tenant server
ValidateWrite(token, projectTokensStr) ==
  IF ~TruthyStr(projectTokensStr) THEN [valid |-> TRUE, error |-> NULL]
  ELSE IF ~TruthyStr(token) THEN [valid |-> FALSE, error |-> "token required"]
  ELSE IF ~Includes(TokenList(projectTokensStr), token)
    THEN [valid |-> FALSE, error |-> "invalid token"]
  ELSE [valid |-> TRUE, error |-> NULL]

\* getUsageToday: row || { event_count: 0, read_count: 0 }
GetUsageToday(p) ==
  IF p \in DOMAIN usage THEN usage[p] ELSE [event_count |-> 0, read_count |-> 0]

\* incrementUsage(projectId, 'event'): INSERT ... ON CONFLICT DO UPDATE SET col = col + 1
IncrementUsage(u, p) ==
  IF p \in DOMAIN u
    THEN [u EXCEPT ![p].event_count = @ + 1]
    ELSE (p :> [event_count |-> 1, read_count |-> 0]) @@ u

\* mutant of IncrementRead: the row is replaced, not updated
IncrementReadReplaces(u, p) ==
  (p :> [event_count |-> 0, read_count |-> 1]) @@ u

\* incrementUsage(projectId, 'read')
IncrementRead(u, p) ==
  IF p \in DOMAIN u
    THEN [u EXCEPT ![p].read_count = @ + 1]
    ELSE (p :> [event_count |-> 0, read_count |-> 1]) @@ u

\* mutant of RateLimited: the limit itself is still let through
RateLimitedAbove(count, limit) == count > limit

\* usage.event_count >= tokenAuth.project.rate_limit_events
RateLimited(count, limit) == count >= limit

\* mutant of MissingFields: a body that carries a token is not inspected
MissingFieldsUnlessToken(r) == ~r.valid /\ ~TruthyStr(r.token)

\* !project || !event
MissingFields(r) == ~r.valid

\* !Array.isArray(events) || events.length === 0
EventsRequired(evts, n) == evts # "array" \/ n = 0

\* mutant of TooManyEvents: one entry more is let through
TooManyEventsLax(n) == n > MaxBatchSize + 1

\* events.length > 100
TooManyEvents(n) == n > MaxBatchSize

\* mutant of BatchToken: the token of the first event wins
BatchTokenEventFirst(token, eventToken) == JsOrStr(eventToken, token)

\* const batchToken = token || (events[0] && events[0].token)
BatchToken(token, eventToken) == JsOrStr(token, eventToken)

\* D1Adapter.trackEvent / trackBatch are not async: new Date(ts).toISOString()
\* throws a RangeError in the caller's stack for a timestamp that is no date
D1WriteThrows(r) == ~r.tsOk

\* promise.catch(err => console.error(...)): the writeOps entry of an operation
\* that ends with outcome "ok" or "error"
WriteOpSettles(outcome) == "fulfilled"

\* generateId(): an id no row has
NextId ==
  IF "p1" \notin projects THEN "p1"
  ELSE IF "p2" \notin projects THEN "p2"
  ELSE IF "p3" \notin projects THEN "p3" ELSE "p4"

\* mutant of Increments: one increment per request, whatever its size
IncrementsOnce(r, p) ==
  IF p = NULL THEN EmptyBag
  ELSE SetToBag({[op |-> "incrementUsage", project |-> p, n |-> 1, complete |-> TRUE,
                  by |-> p]})

\* the usage increments a request queues: one for /track, events.length for a batch
Increments(r, p) ==
  IF p = NULL THEN EmptyBag
  ELSE [ t \in {[op |-> "incrementUsage", project |-> p, n |-> 1, complete |-> TRUE,
                  by |-> p]} |->
           IF r.kind = "batch" THEN r.n ELSE 1 ]

\* the read increment a read request queues when a project's key authorized it
ReadIncrement(p) ==
  IF p = NULL THEN EmptyBag
  ELSE SetToBag({[op |-> "incrementRead", project |-> p, n |-> 1, complete |-> TRUE,
                  by |-> p]})

\* the event write a request queues: the rows go under the project the body
\* names; complete: no entry lacks project or event; by: the project of the token
EventWrite(r) ==
  SetToBag({[op |-> IF r.kind = "batch" THEN "trackBatch" ELSE "trackEvent",
             project |-> r.input.body, n |-> r.n, complete |-> r.input.eventsOk,
             by |-> r.project]})

\* SqliteAdapter.trackEvent / trackBatch are async functions: a throw of
\* new Date(ts).toISOString() in their body is a rejected promise, never a throw
\* in the caller's stack
SqliteWriteThrows(r) == FALSE

\* what handleTrack / handleTrackBatch answer once validation, authorization and
\* the rate limit have passed, with adapter as db: the status and the number of
\* writeOps entries handed to the platform
AcceptedOn(adapter, r) ==
  LET throws == IF adapter = "d1" THEN D1WriteThrows(r) ELSE SqliteWriteThrows(r)
  IN IF throws
       THEN [status |-> 500, writeOps |-> 0]
       ELSE [status |-> 200, writeOps |-> 1 + BagCardinality(Increments(r, r.project))]

(***************************************************************************)
(* The query engine: SqliteAdapter.query (current and first version),      *)
(* D1Adapter.query and the /query route of the single-file worker          *)
(***************************************************************************)
\* the four implementations of the /query compilation
Impls == {"sqlite", "sqlite_v1", "d1", "worker"}

\* a metric or group_by name no implementation knows
Bogus == "bogus"

\* mutant of ALLOWED_METRICS: any name is a metric
AnyMetric(impl) ==
  {"event_count", "unique_users", "session_count", "bounce_rate", "avg_duration", Bogus}

\* ALLOWED_METRICS
ALLOWED_METRICS(impl) ==
  IF impl = "sqlite"
    THEN {"event_count", "unique_users", "session_count", "bounce_rate", "avg_duration"}
    ELSE {"event_count", "unique_users"}

\* ALLOWED_GROUP_BY
ALLOWED_GROUP_BY(impl) ==
  IF impl = "sqlite" THEN {"event", "date", "user_id", "session_id"}
                     ELSE {"event", "date", "user_id"}

\* FILTER_OPS: operator name -> SQL operator
FILTER_OPS ==
  [eq |-> "=", neq |-> "!=", gt |-> ">", lt |-> "<", gte |-> ">=", lte |-> "<="]

\* FILTERABLE_FIELDS; a field is a sequence of pieces: a plain name is one piece,
\* a property filter is the piece "properties." followed by the key's characters
FILTERABLE_FIELDS == {<<"event">>, <<"user_id">>, <<"date">>}

\* ALLOWED_ORDER
ALLOWED_ORDER == {"event_count", "unique_users", "date", "event"}

\* Math.min(limit, 1000)
MaxRows == 1000

\* limit = 100
DefaultLimit == 100

\* f.field.startsWith('properties.')
StartsWithProperties(field) == Len(field) >= 1 /\ field[1] = "properties."

\* f.field.replace('properties.', '')
PropKey(field) == Tail(field)

\* validatePropertyKey(propKey) of @agent-analytics/core accepts the key: it is
\* a safe identifier, letters, digits and underscores only and not empty (the
\* characters of a key are a letter "a", a digit "1", "_" and the quote "'")
SafeKey(key) == Len(key) >= 1 /\ \A i \in 1..Len(key) : key[i] \in {"a", "1", "_"}

\* whether the implementation calls validatePropertyKey before it interpolates
ValidatesPropertyKey(impl) == impl = "sqlite"

\* no error was thrown
NoError == [kind |-> NULL, value |-> NULL, allowed |-> {}]

\* a member of the body that is undefined where a list is expected
Absent == <<"undefined">>

\* for (const x of list) if (!ALLOWED.includes(x)) throw: the first offender
RECURSIVE FirstOutside(_, _)
FirstOutside(list, allowed) ==
  IF list = <<>> THEN NULL
  ELSE IF Head(list) \notin allowed THEN Head(list)
  ELSE FirstOutside(Tail(list), allowed)

\* the select-list entry a metric adds (none for a name the loop does not know)
MetricColumn(impl, m) ==
  CASE m = "event_count" -> <<"COUNT(*) as event_count">>
    [] m = "unique_users" -> <<"COUNT(DISTINCT user_id) as unique_users">>
    [] m = "session_count" /\ impl = "sqlite" ->
         <<"COUNT(DISTINCT session_id) as session_count">>
    [] m = "bounce_rate" /\ impl = "sqlite" ->
         <<"COUNT(DISTINCT session_id) as _session_count_for_bounce">>
    [] m = "avg_duration" /\ impl = "sqlite" ->
         <<"COUNT(DISTINCT session_id) as _session_count_for_duration">>
    [] OTHER -> <<>>

RECURSIVE MetricColumns(_, _)
MetricColumns(impl, metrics) ==
  IF metrics = <<>> THEN <<>>
  ELSE MetricColumn(impl, Head(metrics)) \o MetricColumns(impl, Tail(metrics))

\* selectParts: [...group_by], one entry per metric, COUNT(*) when empty
SelectParts(impl, metrics, group_by) ==
  LET parts == group_by \o MetricColumns(impl, metrics)
  IN IF Len(parts) = 0 THEN <<"COUNT(*) as event_count">> ELSE parts

\* the names ORDER BY can resolve: the columns of events and the aliases of
\* the select list
OutputNames(select) ==
  {"event", "date", "user_id", "session_id"} \cup
  {m \in {"event_count", "unique_users", "session_count"} :
     \E k \in 1..Len(select) : <<select[k]>> = MetricColumn("sqlite", m)}

\* if (!f.field || !f.op || f.value === undefined) continue
FilterSkipped(f) == f.field = <<>> \/ f.op = NULL \/ ~f.hasValue

\* the filter loop: the where parts and bound values it adds, or the error it
\* throws (worker: returns).  A part is [field, key, op]: field for a plain
\* comparison, key for json_extract(properties, '$.key'); op is the SQL operator.
RECURSIVE CompileFilters(_, _)
CompileFilters(impl, filters) ==
  IF filters = <<>> THEN [error |-> NoError, where |-> <<>>, params |-> <<>>]
  ELSE
    LET f == Head(filters)
        rest == CompileFilters(impl, Tail(filters))
        known == f.op \in DOMAIN FILTER_OPS
        sqlOp == IF known THEN FILTER_OPS[f.op] ELSE NULL
        thrown(kind, value, allowed) ==
          [error |-> [kind |-> kind, value |-> value, allowed |-> allowed],
           where |-> <<>>, params |-> <<>>]
        added(part) ==
          IF rest.error # NoError THEN rest
          ELSE [error |-> NoError, where |-> <<part>> \o rest.where,
                params |-> <<f.value>> \o rest.params]
    IN IF FilterSkipped(f) THEN rest
       ELSE IF impl # "worker" /\ ~known
         THEN thrown("invalid filter op", f.op,
                     IF impl = "d1" THEN {} ELSE DOMAIN FILTER_OPS)
       ELSE IF f.field \in FILTERABLE_FIELDS
         THEN IF ~known THEN thrown("invalid filter op", f.op, DOMAIN FILTER_OPS)
              ELSE added([field |-> f.field[1], key |-> <<>>, op |-> sqlOp])
       ELSE IF StartsWithProperties(f.field)
         THEN IF ~known THEN rest
              ELSE IF ValidatesPropertyKey(impl) /\ ~SafeKey(PropKey(f.field))
                THEN thrown("invalid property key", "key", {})
              ELSE added([field |-> NULL, key |-> PropKey(f.field), op |-> sqlOp])
       ELSE rest

\* order_by && ALLOWED_ORDER.includes(order_by) ? order_by
\*   : (group_by.includes('date') ? 'date' : 'event_count')
OrderField(order_by, group_by) ==
  IF order_by # NULL /\ order_by \in ALLOWED_ORDER THEN order_by
  ELSE IF \E i \in 1..Len(group_by) : group_by[i] = "date" THEN "date"
  ELSE "event_count"

\* order === 'asc' ? 'ASC' : 'DESC'
OrderDir(order) == IF order = "asc" THEN "ASC" ELSE "DESC"

\* the bound LIMIT parameter: Math.min(limit, 1000), limit defaulting to 100;
\* worker: Math.min(parseInt(queryLimit) || 100, 1000).  nan |-> TRUE is NaN.
MaxLimit(impl, limit) ==
  IF limit.given = "absent" THEN [nan |-> FALSE, n |-> DefaultLimit]
  ELSE IF limit.given = "text"
    THEN IF impl = "worker" THEN [nan |-> FALSE, n |-> DefaultLimit]
                            ELSE [nan |-> TRUE, n |-> 0]
  ELSE IF impl = "worker" /\ limit.n = 0 THEN [nan |-> FALSE, n |-> DefaultLimit]
  ELSE [nan |-> FALSE, n |-> Min(limit.n, MaxRows)]

\* SQLite's LIMIT over `groups` result rows: a negative limit is no limit
RowsReturned(groups, n) == IF n < 0 THEN groups ELSE Min(groups, n)

\* no query was compiled
NoPlan ==
  [error |-> NoError, select |-> <<>>, where |-> <<>>, group_by |-> <<>>,
   orderField |-> NULL, orderDir |-> NULL, params |-> <<>>,
   limit |-> [nan |-> FALSE, n |-> 0]]

\* the compilation of a body up to the prepared statement: an error, or the
\* parts of the query text and the bound parameters
Compile(impl, b) ==
  LET metrics == IF b.metrics = Absent THEN <<"event_count">> ELSE b.metrics
      group_by == IF b.group_by = Absent THEN <<>> ELSE b.group_by
      badMetric == FirstOutside(metrics, ALLOWED_METRICS(impl))
      badGroup == FirstOutside(group_by, ALLOWED_GROUP_BY(impl))
      fs == CompileFilters(impl, b.filters)
      lim == MaxLimit(impl, b.limit)
  IN IF badMetric # NULL
       THEN [NoPlan EXCEPT !.error = [kind |-> "invalid metric", value |-> badMetric,
                                    allowed |-> ALLOWED_METRICS(impl)]]
     ELSE IF badGroup # NULL
       THEN [NoPlan EXCEPT !.error = [kind |-> "invalid group_by", value |-> badGroup,
                                    allowed |-> ALLOWED_GROUP_BY(impl)]]
     ELSE IF fs.error # NoError THEN [NoPlan EXCEPT !.error = fs.error]
     ELSE [error |-> NoError,
           select |-> SelectParts(impl, metrics, group_by),
           where |-> fs.where,
           group_by |-> group_by,
           orderField |-> OrderField(b.order_by, group_by),
           orderDir |-> OrderDir(b.order),
           params |-> <<"project", "fromDate", "toDate">> \o fs.params \o <<"maxLimit">>,
           limit |-> lim]

\* the filters a body can hold ("like" is no operator; NULL, <<>>: the member
\* is absent)
FilterInputs ==
  [field : {<<>>, <<"event">>, <<"date">>, <<Bogus>>, <<"properties.">>,
            <<"properties.", "a">>, <<"properties.", "a", "1">>,
            <<"properties.", "a", "'">>, <<"properties.", "'">>},
   op : {"eq"}, value : {"v"}, hasValue : {TRUE}] \cup
  [field : {<<"event">>, <<Bogus>>, <<"properties.", "a">>}, op : {NULL, "gte", "like"},
   value : {"v"}, hasValue : {TRUE}] \cup
  [field : {<<"event">>}, op : {"eq", "like"}, value : {NULL}, hasValue : {FALSE}]

\* the filters of a body: a list of filters (none: filters is absent, no array,
\* or empty; the loop is not entered)
FilterLists ==
  {<<>>} \cup {<<f>> : f \in FilterInputs} \cup
  {<<[field |-> <<"event">>, op |-> "eq", value |-> "v", hasValue |-> TRUE], f>> :
     f \in [field : {<<Bogus>>, <<"date">>, <<"properties.", "'">>}, op : {"lt", "like"},
            value : {"w"}, hasValue : {TRUE}]}

\* the limit of a body: absent, a number, or a value that is no number
Limits ==
  {[given |-> "absent", n |-> 0], [given |-> "text", n |-> 0]} \cup
  [given : {"number"}, n : {-1, 0, 1, 5, 1000, 1001, 5000}]

\* the number of result rows the store holds for a query without its LIMIT
StoredGroups == {0, 3, 1001}

\* the body {project: 'site'}
PlainBody ==
  [project |-> "site", metrics |-> Absent, group_by |-> Absent, filters |-> <<>>,
   order_by |-> NULL, order |-> NULL, limit |-> [given |-> "absent", n |-> 0]]

\* the bodies handled: metrics, group_by and order_by varied together, then the
\* filters, then limit and order, then a body without project
QueryBodies ==
  {[PlainBody EXCEPT !.metrics = m, !.group_by = g, !.order_by = o] :
     m \in {Absent, <<>>, <<"event_count">>, <<"unique_users">>, <<"session_count">>,
            <<"unique_users", "event_count">>, <<Bogus>>, <<"event_count", Bogus>>},
     g \in {Absent, <<"date">>, <<"event">>, <<"session_id">>, <<Bogus>>},
     o \in {NULL, "unique_users", "date", "timestamp"}} \cup
  {[PlainBody EXCEPT !.filters = fl, !.metrics = m] :
     fl \in FilterLists, m \in {Absent, <<Bogus>>}} \cup
  {[PlainBody EXCEPT !.limit = l, !.order = o] : l \in Limits, o \in {NULL, "asc"}} \cup
  {[PlainBody EXCEPT !.project = NULL, !.metrics = m] : m \in {Absent, <<Bogus>>}}

\* a /query request: the implementation serving it, whether its key is valid,
\* the body, and what the store holds
QueryRequests ==
  [impl : Impls, auth : {TRUE}, body : QueryBodies, groups : StoredGroups] \cup
  [impl : Impls, auth : {FALSE}, body : {PlainBody, [PlainBody EXCEPT !.metrics = <<Bogus>>]},
   groups : {3}]

\* no /query request has been made
NoQuery ==
  [pc |-> "none", impl |-> NULL, auth |-> FALSE, body |-> PlainBody, groups |-> 0,
   status |-> 0, plan |-> NoPlan, executed |-> FALSE, rows |-> 0, count |-> 0]

(***************************************************************************)
(* handlers.js: the steps of a request.  A step runs from one storage       *)
(* await to the next; what lies between touches only the request's locals.  *)
(***************************************************************************)
\* the state of a fresh process: projs are the rows of the projects table,
\* projectTokensStr and apiKeysStr the static lists of the environment
Boot(projs, projectTokensStr, apiKeysStr) ==
  /\ events = EmptyBag
  /\ sessions = <<>>
  /\ contrib = [s \in SessionIds |-> {}]
  /\ upserts = 0
  /\ dbResult = "ok"
  /\ clock = 0
  /\ projects = projs
  /\ usage = <<>>
  /\ d1Events = [b \in EventProjects |-> 0]
  /\ projectsCache = [loaded |-> FALSE, ids |-> {}]
  /\ cacheLoadedAt = 0
  /\ req = [r \in ReqIds |-> IdleReq]
  /\ resp = NoResp
  /\ lastAuth = [acked |-> {}, ctx |-> {}, gone |-> {}]
  /\ tasks = EmptyBag
  /\ started = 0
  /\ acked = projs
  /\ dirty = FALSE
  /\ unhandled = FALSE
  /\ env = [projectTokens |-> projectTokensStr, apiKeys |-> apiKeysStr]
  /\ secrets = [q \in projs |-> [project_token |-> TokenOf(q), api_key |-> KeyOf(q),
                                  owner_email |-> OwnerOf(q)]]
  /\ analyticsQueue = [ messages |-> 0, failed |-> 0, direct |-> 0, lost |-> 0, consumed |-> 0,
                        last |-> [size |-> 0, wrote |-> FALSE, ackAll |-> 0, retryAll |-> 0] ]
  /\ deleted = {}

\* one project exists, no static list is set
Init == Boot({"p1"}, NoString, NoString) /\ authCall = NoCall /\ queryCall = NoQuery

\* no project or two, API_KEYS unset or "a,b"
InitReads ==
  \E projs \in {{}, ProjectIds}, apiKeysStr \in {NoString, <<"a", ",", "b">>} :
    Boot(projs, NoString, apiKeysStr) /\ authCall = NoCall /\ queryCall = NoQuery

\* no project or one, PROJECT_TOKENS unset or holding the token BadToken
InitOpen ==
  \E projs \in {{}, {"p1"}}, projectTokensStr \in {NoString, BadToken} :
    Boot(projs, projectTokensStr, NoString) /\ authCall = NoCall /\ queryCall = NoQuery

\* two projects of different owners exist, no static list is set
InitTenants == Boot(ProjectIds, NoString, NoString) /\ authCall = NoCall /\ queryCall = NoQuery

\* the arguments of a direct call of a write-token validator: any token, any
\* static list, a cache of no project or of project p1
InitAuth ==
  /\ Boot({"p1"}, NoString, NoString)
  /\ queryCall = NoQuery
  /\ \E token \in StringsUpTo(MaxStr - 1), str \in StringsUpTo(MaxStr), ids \in SUBSET {"p1"} :
       authCall = [NoCall EXCEPT !.token = token, !.list = str, !.ids = ids]

\* the arguments of a direct call of validateWriteAccess: the write key and the
\* Origin of the request (absent, listed, listed in another case, not listed),
\* WRITE_KEYS and ALLOWED_ORIGINS unset or set
InitWrite ==
  /\ Boot({"p1"}, NoString, NoString)
  /\ queryCall = NoQuery
  /\ \E writeKey \in {NoString, <<"k">>, <<"x">>},
        origin \in {NoString, <<"a">>, <<"A">>, <<"b">>, <<" ", "a">>},
        writeKeys \in {NoString, <<"k">>, <<"j", ",", " ", "k">>},
        allowedOrigins \in {NoString, <<"a">>, <<"c", ",", " ", "A">>, <<"*">>} :
       authCall = [NoCall EXCEPT !.token = writeKey, !.origin = origin, !.list = writeKeys,
                                 !.allowed = allowedOrigins]

\* a /query request is about to be handled
InitQuery ==
  /\ Boot({"p1"}, NoString, NoString)
  /\ authCall = NoCall
  /\ \E q \in QueryRequests :
       queryCall = [NoQuery EXCEPT !.pc = "ready", !.impl = q.impl, !.auth = q.auth,
                                   !.body = q.body, !.groups = q.groups]

\* handleRequest returns (status 0: it rejects): the slot is free again
Respond(slot, r, status, usageSeen, limit, accepted, writeOps) ==
  /\ req' = [req EXCEPT ![slot] = IdleReq]
  /\ resp' = [ kind |-> r.kind, status |-> status, project |-> r.project,
               usageSeen |-> usageSeen, limit |-> limit, accepted |-> accepted,
               writeOps |-> writeOps, input |-> r.input, data |-> NULL, error |-> NULL ]

\* handleRequest's catch: json({ error: err.message }, 500), message is err.message
CatchBody(message) == message

\* an error with the text message is thrown inside handleRequest's try block
Throw(slot, r, usageSeen, accepted, message) ==
  /\ req' = [req EXCEPT ![slot] = IdleReq]
  /\ resp' = [ kind |-> r.kind, status |-> 500, project |-> r.project,
               usageSeen |-> usageSeen, limit |-> 0, accepted |-> accepted,
               writeOps |-> 0, input |-> r.input, data |-> NULL,
               error |-> CatchBody(message) ]

\* handleTrack / handleTrackBatch from the point where validation, authorization
\* and the rate limit have passed: the writes are started and the response built.
\* A throw of the adapter call lands in handleRequest's catch: 500.
Accept(slot, r, usageSeen) ==
  IF D1WriteThrows(r)
    THEN /\ Throw(slot, r, usageSeen, TRUE, "Invalid time value")
         /\ UNCHANGED tasks
    ELSE /\ Respond(slot, r, 200, usageSeen, 0, TRUE,
                    1 + BagCardinality(Increments(r, r.project)))
         /\ tasks' = tasks (+) EventWrite(r) (+) Increments(r, r.project)

\* handleRequest after getProjectsCache returned ids, up to the handler's first
\* storage await (or its response)
Dispatch(slot, r, ids) ==
  LET token == IF r.kind = "batch" THEN BatchToken(r.token, r.input.eventToken)
                                    ELSE r.token
      auth == ValidateProjectToken(token, env.projectTokens, ids)
      ra == [r EXCEPT !.project = auth.project]
      read == ValidateApiKey(r.input.key, env.apiKeys, ids)
  IN /\ lastAuth' = [acked |-> r.acked, ctx |-> ids, gone |-> r.gone]
     /\ CASE r.kind = "track" ->
               IF MissingFields(r)
                 THEN Respond(slot, r, 400, 0, 0, FALSE, 0) /\ UNCHANGED tasks
               ELSE IF ~auth.valid
                 THEN Respond(slot, r, 403, 0, 0, FALSE, 0) /\ UNCHANGED tasks
               ELSE IF auth.project # NULL
                 THEN /\ req' = [req EXCEPT ![slot] = [ra EXCEPT !.pc = "usage"]]
                      /\ UNCHANGED <<tasks, resp>>
               ELSE Accept(slot, ra, 0)
          [] r.kind = "batch" ->
               IF EventsRequired(r.input.events, r.n)
                 THEN Respond(slot, r, 400, 0, 0, FALSE, 0) /\ UNCHANGED tasks
               ELSE IF TooManyEvents(r.n)
                 THEN Respond(slot, r, 400, 0, 0, FALSE, 0) /\ UNCHANGED tasks
               ELSE IF ~auth.valid
                 THEN Respond(slot, r, 403, 0, 0, FALSE, 0) /\ UNCHANGED tasks
               ELSE Accept(slot, ra, GetUsageToday(auth.project).event_count)
          [] r.kind = "create" ->
               IF ~r.valid
                 THEN Respond(slot, r, 400, 0, 0, FALSE, 0) /\ UNCHANGED tasks
                 ELSE /\ req' = [req EXCEPT ![slot] = [r EXCEPT !.pc = "list"]]
                      /\ UNCHANGED <<tasks, resp>>
          [] r.kind \in ReadKinds ->
               IF ~read.valid
                 THEN Respond(slot, r, 401, 0, 0, FALSE, 0) /\ UNCHANGED tasks
               ELSE IF r.input.param = NULL
                 THEN Respond(slot, r, 400, 0, 0, FALSE, 0) /\ UNCHANGED tasks
               ELSE /\ req' = [req EXCEPT ![slot] =
                                 [r EXCEPT !.pc = "read", !.project = read.project]]
                    /\ UNCHANGED <<tasks, resp>>
          [] r.kind = "usage" ->
               IF ~read.valid
                 THEN Respond(slot, r, 401, 0, 0, FALSE, 0) /\ UNCHANGED tasks
               ELSE /\ req' = [req EXCEPT ![slot] =
                                 [r EXCEPT !.pc = "read", !.project = read.project]]
                    /\ UNCHANGED <<tasks, resp>>
          [] r.kind = "delete" ->
               IF ~read.valid
                 THEN Respond(slot, r, 401, 0, 0, FALSE, 0) /\ UNCHANGED tasks
               ELSE /\ req' = [req EXCEPT ![slot] =
                                 [r EXCEPT !.pc = "lookup", !.project = read.project]]
                    /\ UNCHANGED <<tasks, resp>>

\* the cache is missing or older than the TTL
CacheStale(now) == ~projectsCache.loaded \/ now - cacheLoadedAt > CACHE_TTL_MS

\* a request arrives: getProjectsCache either starts a load or returns the cache
StartRequest(slot, input) ==
  /\ req[slot].pc = "idle"
  /\ started < MaxRequests
  /\ input.kind = "create" => projects # ProjectIds
  /\ started' = started + 1
  /\ dirty' = FALSE
  /\ LET r == [IdleReq EXCEPT !.kind = input.kind, !.token = input.token,
                              !.valid = input.valid, !.tsOk = input.tsOk, !.n = input.n,
                              !.input = input]
     IN IF CacheStale(Now)
          THEN /\ req' = [req EXCEPT ![slot] = [r EXCEPT !.pc = "load", !.now = Now,
                                                         !.acked = acked, !.gone = deleted]]
               /\ UNCHANGED <<tasks, resp, lastAuth>>
          ELSE Dispatch(slot, [r EXCEPT !.acked = acked, !.gone = deleted], projectsCache.ids)
  /\ UNCHANGED <<sessionVars, authVars, env, secrets, clock, projects, usage, d1Events, projectsCache,
                 cacheLoadedAt, acked, unhandled>>

\* db.loadProjectsCache(): SELECT * FROM projects is answered
LoadRead(slot) ==
  /\ req[slot].pc = "load"
  /\ req' = [req EXCEPT ![slot].pc = "loaded", ![slot].snapshot = projects]
  /\ UNCHANGED <<sessionVars, authVars, env, secrets, clock, projects, usage, d1Events, projectsCache,
                 cacheLoadedAt, resp, lastAuth, tasks, started, acked, dirty, unhandled>>

\* db.loadProjectsCache() rejects with an error other than 'no such table':
\* getProjectsCache rethrows and handleRequest rejects, the cache is left alone
LoadFails(slot) ==
  /\ req[slot].pc = "load"
  /\ Respond(slot, req[slot], 0, 0, 0, FALSE, 0)
  /\ UNCHANGED <<sessionVars, authVars, env, secrets, clock, projects, usage, d1Events, projectsCache,
                 cacheLoadedAt, lastAuth, tasks, started, acked, dirty, unhandled>>

\* the await of the load resumes: projectsCache and cacheLoadedAt are assigned
LoadFinish(slot) ==
  /\ req[slot].pc = "loaded"
  /\ projectsCache' = [loaded |-> TRUE, ids |-> req[slot].snapshot]
  /\ cacheLoadedAt' = req[slot].now
  /\ Dispatch(slot, [req[slot] EXCEPT !.now = 0, !.snapshot = {}], req[slot].snapshot)
  /\ UNCHANGED <<sessionVars, authVars, env, secrets, clock, projects, usage, d1Events, started, acked, dirty,
                 unhandled>>

\* handleTrack: getUsageToday is answered and the limit compared
CheckRateLimit(slot) ==
  /\ req[slot].pc = "usage"
  /\ LET count == GetUsageToday(req[slot].project).event_count
     IN IF RateLimited(count, RateLimitEvents)
          THEN /\ Respond(slot, req[slot], 429, count, RateLimitEvents, FALSE, 0)
               /\ UNCHANGED tasks
          ELSE Accept(slot, req[slot], count)
  /\ UNCHANGED <<sessionVars, authVars, env, secrets, clock, projects, usage, d1Events, projectsCache,
                 cacheLoadedAt, lastAuth, started, acked, dirty, unhandled>>

\* handleStats / handleEvents / handleQuery / handleProperties / handleProjectUsage:
\* the store answers the read for the project the request names (rows: what the
\* events table holds under that name; for usage: the rows of that project id);
\* the read increment is queued when a project's key authorized the request
ReadStore(slot) ==
  /\ req[slot].pc = "read"
  /\ LET r == req[slot]
         ops == IF r.kind = "usage" THEN EmptyBag ELSE ReadIncrement(r.project)
     IN /\ req' = [req EXCEPT ![slot] = IdleReq]
        /\ resp' = [ kind |-> r.kind, status |-> 200, project |-> r.project,
                     usageSeen |-> 0, limit |-> 0, accepted |-> FALSE,
                     writeOps |-> BagCardinality(ops), input |-> r.input,
                     data |-> [project |-> r.input.param], error |-> NULL ]
        /\ tasks' = tasks (+) ops
  /\ UNCHANGED <<sessionVars, authVars, env, secrets, clock, projects, usage, d1Events,
                 projectsCache, cacheLoadedAt, lastAuth, started, acked, dirty, unhandled>>

\* the direct call validateProjectToken(token, list, {projectsCache}) is made
CallValidateProjectToken ==
  /\ authCall.fn = NULL
  /\ authCall' = [authCall EXCEPT
       !.fn = "validateProjectToken",
       !.valid = ValidateProjectToken(authCall.token, authCall.list, authCall.ids).valid]
  /\ UNCHANGED <<sessionVars, handlerVars, queryCall, analyticsQueue, deleted>>

\* the direct call makeValidateWrite(list)(request, {token}) is made; it takes
\* no cache
CallValidateWrite ==
  /\ authCall.fn = NULL
  /\ authCall.ids = {}
  /\ authCall' = [authCall EXCEPT
       !.fn = "validateWrite",
       !.valid = ValidateWrite(authCall.token, authCall.list).valid]
  /\ UNCHANGED <<sessionVars, handlerVars, queryCall, analyticsQueue, deleted>>

\* the free tier: existing.length >= 3 is refused
ProjectLimit == 3

\* s.toLowerCase(), over the letters the origins of the model are made of
ToLowerCase(s) == [i \in 1..Len(s) |-> IF s[i] = "A" THEN "a" ELSE s[i]]

\* validateWriteAccess(request, url, { writeKeys, allowedOrigins }); writeKey is
\* the X-Write-Key header || ?write_key=, origin the Origin header
ValidateWriteAccess(writeKey, origin, writeKeys, allowedOrigins) ==
  LET keys == TokenList(writeKeys)
      parts == Split(allowedOrigins)
      allowed == [i \in 1..Len(parts) |-> ToLowerCase(Trim(parts[i]))]
  IN IF TruthyStr(writeKey) /\ TruthyStr(writeKeys)
       THEN IF Includes(keys, writeKey)
              THEN [valid |-> TRUE, error |-> NULL]
              ELSE [valid |-> FALSE, error |-> "invalid write key"]
     ELSE IF TruthyStr(allowedOrigins) /\ TruthyStr(origin)
       THEN IF ~Includes(allowed, ToLowerCase(origin))
              THEN [valid |-> FALSE, error |-> "origin not allowed"]
              ELSE [valid |-> TRUE, error |-> NULL]
     ELSE IF TruthyStr(allowedOrigins) /\ TruthyStr(writeKeys)
       THEN [valid |-> FALSE, error |-> "write key required for server-side requests"]
     ELSE IF TruthyStr(writeKeys) /\ ~TruthyStr(writeKey)
       THEN [valid |-> FALSE, error |-> "write key required"]
     ELSE [valid |-> TRUE, error |-> NULL]

\* the direct call validateWriteAccess(request, url, opts) is made
CallValidateWriteAccess ==
  /\ authCall.fn = NULL
  /\ authCall' = [authCall EXCEPT
       !.fn = "validateWriteAccess",
       !.valid = ValidateWriteAccess(authCall.token, authCall.origin, authCall.list,
                                     authCall.allowed).valid]
  /\ UNCHANGED <<sessionVars, handlerVars, queryCall, analyticsQueue, deleted>>

\* handleCreateProject: listProjectsByOwner(email) is answered; 403 when the
\* owner has ProjectLimit rows or more
ListProjects(slot) ==
  /\ req[slot].pc = "list"
  /\ LET existing == { q \in projects : secrets[q].owner_email = req[slot].input.param }
     IN IF Cardinality(existing) >= ProjectLimit
          THEN Respond(slot, req[slot], 403, 0, 0, FALSE, 0)
          ELSE req' = [req EXCEPT ![slot].pc = "insert"] /\ UNCHANGED resp
  /\ UNCHANGED <<sessionVars, authVars, env, secrets, clock, projects, usage, d1Events, projectsCache,
                 cacheLoadedAt, lastAuth, tasks, started, acked, dirty, unhandled>>

\* mutant of Collides: only project_token is UNIQUE
CollidesOnToken(tok, key) ==
  \E q \in projects : secrets[q].project_token = tok

\* project_token TEXT UNIQUE, api_key TEXT UNIQUE: a row holds one of the values
Collides(tok, key) ==
  \E q \in projects : secrets[q].project_token = tok \/ secrets[q].api_key = key

\* the text of the error of the store when the INSERT INTO projects fails
UniqueError(tok, key) ==
  IF \E q \in projects : secrets[q].project_token = tok
    THEN "UNIQUE constraint failed: projects.project_token"
    ELSE "UNIQUE constraint failed: projects.api_key"

\* db.createProject with the generated project_token tok and api_key key: the
\* INSERT INTO projects runs, or fails on a UNIQUE constraint and the error
\* reaches handleRequest's catch: 500
InsertRow(slot, tok, key) ==
  /\ req[slot].pc = "insert"
  /\ projects # ProjectIds
  /\ IF Collides(tok, key)
       THEN /\ Throw(slot, req[slot], 0, FALSE, UniqueError(tok, key))
            /\ UNCHANGED <<projects, secrets>>
       ELSE /\ projects' = projects \cup {NextId}
            /\ secrets' = (NextId :> [project_token |-> tok, api_key |-> key,
                                      owner_email |-> req[slot].input.param]) @@ secrets
            /\ req' = [req EXCEPT ![slot].pc = "created", ![slot].project = NextId]
            /\ UNCHANGED resp
  /\ UNCHANGED <<sessionVars, authVars, env, clock, usage, d1Events, projectsCache, cacheLoadedAt,
                 lastAuth, tasks, started, acked, dirty, unhandled>>

\* db.createProject where generateToken yielded the values TokenOf and KeyOf
\* give the new id, which no row holds
InsertProject(slot) == InsertRow(slot, TokenOf(NextId), KeyOf(NextId))

\* createProject returns the row; invalidateCache(); the 201 response
FinishCreate(slot) ==
  /\ req[slot].pc = "created"
  /\ projectsCache' = [loaded |-> FALSE, ids |-> {}]
  /\ cacheLoadedAt' = 0
  /\ dirty' = TRUE
  /\ acked' = acked \cup {req[slot].project}
  /\ Respond(slot, req[slot], 201, 0, 0, FALSE, 0)
  /\ UNCHANGED <<sessionVars, authVars, env, secrets, clock, projects, usage, d1Events, lastAuth, tasks, started,
                 unhandled>>

\* handleDeleteProject: getProjectById is answered; 404 without a row, 403 when
\* the key is a project's and its owner is not the row's
GetProject(slot) ==
  /\ req[slot].pc = "lookup"
  /\ LET r == req[slot]
         id == r.input.param
     IN IF id \notin projects
          THEN Respond(slot, r, 404, 0, 0, FALSE, 0)
        ELSE IF r.project # NULL /\ OwnerOf(r.project) # secrets[id].owner_email
          THEN Respond(slot, r, 403, 0, 0, FALSE, 0)
        ELSE req' = [req EXCEPT ![slot].pc = "delete"] /\ UNCHANGED resp
  /\ UNCHANGED <<sessionVars, authVars, env, secrets, clock, projects, usage, d1Events, projectsCache,
                 cacheLoadedAt, lastAuth, tasks, started, acked, dirty, unhandled>>

\* db.deleteProject(id): one batch deletes the usage rows and the events rows
\* whose project_id is the id, then the projects row
DeleteRows(slot) ==
  /\ req[slot].pc = "delete"
  /\ LET id == req[slot].input.param
     IN /\ usage' = [q \in DOMAIN usage \ {id} |-> usage[q]]
        /\ d1Events' = [d1Events EXCEPT ![id] = 0]
        /\ projects' = projects \ {id}
        /\ secrets' = [q \in projects \ {id} |-> secrets[q]]
  /\ req' = [req EXCEPT ![slot].pc = "deleted"]
  /\ UNCHANGED <<sessionVars, authVars, env, clock, projectsCache, cacheLoadedAt, resp,
                 lastAuth, tasks, started, acked, dirty, unhandled>>

\* deleteProject returned; invalidateCache(); the 200 response
FinishDelete(slot) ==
  /\ req[slot].pc = "deleted"
  /\ projectsCache' = [loaded |-> FALSE, ids |-> {}]
  /\ cacheLoadedAt' = 0
  /\ dirty' = TRUE
  /\ deleted' = deleted \cup {req[slot].input.param}
  /\ Respond(slot, req[slot], 200, 0, 0, FALSE, 0)
  /\ UNCHANGED <<sessionVars, authCall, queryCall, analyticsQueue, env, secrets, clock, projects,
                 usage, d1Events, lastAuth, tasks, started, acked, unhandled>>

\* the platform runs a pending writeOps entry: the D1 statement succeeds or fails
\* (usage.project_id references projects(id): an increment for a project whose
\* row is gone fails)
RunTask(t, outcome) ==
  /\ BagIn(t, tasks)
  /\ outcome = "ok" => t.complete
  /\ (outcome = "ok" /\ t.op \in {"incrementUsage", "incrementRead"}) => t.project \in projects
  /\ tasks' = tasks (-) SetToBag({t})
  /\ unhandled' = (unhandled \/ WriteOpSettles(outcome) = "rejected")
  /\ IF outcome = "ok" /\ t.op = "incrementUsage"
       THEN usage' = IncrementUsage(usage, t.project) /\ UNCHANGED d1Events
     ELSE IF outcome = "ok" /\ t.op = "incrementRead"
       THEN usage' = IncrementRead(usage, t.project) /\ UNCHANGED d1Events
     ELSE IF outcome = "ok"
       THEN d1Events' = [d1Events EXCEPT ![t.project] = @ + t.n] /\ UNCHANGED usage
     ELSE UNCHANGED <<usage, d1Events>>
  /\ UNCHANGED <<sessionVars, authVars, env, secrets, clock, projects, projectsCache, cacheLoadedAt, req, resp,
                 lastAuth, started, acked, dirty>>

\* what the client gets for the outcome r of handleRequest: the node server
\* catches a rejection (status 0) and answers 500 with a fixed body; the Worker's
\* fetch has no catch, the rejection leaves it (status 0: no response of the code)
ClientSees(platform, r) ==
  IF r.status = 0 /\ platform = "node"
    THEN [status |-> 500, error |-> "internal server error"]
    ELSE [status |-> r.status, error |-> r.error]

\* time passes
Tick ==
  /\ clock < MaxClock
  /\ clock' = clock + 1
  /\ UNCHANGED <<sessionVars, authVars, env, secrets, projects, usage, d1Events, projectsCache, cacheLoadedAt,
                 req, resp, lastAuth, tasks, started, acked, dirty, unhandled>>

(***************************************************************************)
(* handleQuery (worker: the /query route) with the adapter's query          *)
(***************************************************************************)
\* what the store does with LIMIT NaN is not fixed by the code: the statement
\* fails, or runs without a limit, or returns no row
NanOutcomes == {"error", "unbounded", "empty"}

\* the whole request: 401 without a valid key, 400 without project, 400 for a
\* compilation error, else the statement runs; an error of the store is the
\* catch's 400 in handleQuery and the outer catch's 500 in the worker
HandleQuery(nanOutcome) ==
  /\ queryCall.pc = "ready"
  /\ LET q == queryCall
         c == Compile(q.impl, q.body)
         storeThrows == \/ c.orderField \notin OutputNames(c.select)
                        \/ c.limit.nan /\ nanOutcome = "error"
         n == IF ~c.limit.nan THEN c.limit.n
              ELSE IF nanOutcome = "empty" THEN 0 ELSE -1
         rows == RowsReturned(q.groups, n)
         done == [q EXCEPT !.pc = "done"]
     IN /\ c.limit.nan \/ nanOutcome = "error"   \* one step per outcome
        /\ queryCall' =
             IF ~q.auth THEN [done EXCEPT !.status = 401]
             ELSE IF q.body.project = NULL THEN [done EXCEPT !.status = 400]
             ELSE IF c.error # NoError THEN [done EXCEPT !.status = 400, !.plan = c]
             ELSE IF storeThrows
               THEN [done EXCEPT !.status = IF q.impl = "worker" THEN 500 ELSE 400,
                                 !.plan = c, !.executed = TRUE]
             ELSE [done EXCEPT !.status = 200, !.plan = c, !.executed = TRUE,
                               !.rows = rows, !.count = rows]
  /\ UNCHANGED <<sessionVars, handlerVars, authCall, analyticsQueue, deleted>>

(***************************************************************************)
(* The Worker entry points with a queue: platforms/cloudflare.js and the   *)
(* entry built on the core package.  The handler's result is an input.      *)
(***************************************************************************)
\* fetch after the handler returned a 200 response for n events: with a queue
\* bound and queueMessages returned the enqueue chain is handed to waitUntil,
\* else the writeOps entry is (platform: "cloudflare" is platforms/cloudflare.js,
\* "core" the entry built on @agent-analytics/core)
Fetch(platform, queueOn, n) ==
  /\ started < MaxRequests
  /\ started' = started + 1
  /\ resp' = [NoResp EXCEPT !.kind = "batch", !.status = 200, !.accepted = TRUE,
                            !.writeOps = 1]
  /\ tasks' = tasks (+) SetToBag({[op |-> IF queueOn THEN "sendBatch" ELSE "trackBatch",
                                   project |-> "site", n |-> n, complete |-> TRUE,
                                   by |-> platform]})
  /\ UNCHANGED <<sessionVars, authVars, env, secrets, clock, projects, usage, d1Events,
                 projectsCache, cacheLoadedAt, req, lastAuth, acked, dirty, unhandled>>

\* queue.sendBatch(...) settles: the events are enqueued, or the first .catch
\* runs and calls db.trackBatch(queueMessages)
SendBatch(t, outcome) ==
  /\ BagIn(t, tasks) /\ t.op = "sendBatch"
  /\ IF outcome = "ok"
       THEN /\ tasks' = tasks (-) SetToBag({t})
            /\ analyticsQueue' = [analyticsQueue EXCEPT !.messages = @ + t.n]
       ELSE /\ tasks' = (tasks (-) SetToBag({t})) (+) SetToBag({[t EXCEPT !.op = "fallback"]})
            /\ analyticsQueue' = [analyticsQueue EXCEPT !.failed = @ + t.n]
  /\ UNCHANGED <<sessionVars, authCall, queryCall, deleted, env, secrets, clock, projects, usage,
                 d1Events, projectsCache, cacheLoadedAt, req, resp, lastAuth, started, acked,
                 dirty, unhandled>>

\* how the promise handed to waitUntil settles when the fallback write ends
\* with outcome: cloudflare.js chains a second .catch, the core entry none
FallbackSettles(platform, outcome) ==
  IF platform = "core" /\ outcome = "error" THEN "rejected" ELSE "fulfilled"

\* the fallback db.trackBatch(queueMessages) settles
FallbackWrite(t, outcome) ==
  /\ BagIn(t, tasks) /\ t.op = "fallback"
  /\ tasks' = tasks (-) SetToBag({t})
  /\ IF outcome = "ok"
       THEN /\ d1Events' = [d1Events EXCEPT ![t.project] = @ + t.n]
            /\ analyticsQueue' = [analyticsQueue EXCEPT !.direct = @ + t.n]
       ELSE /\ analyticsQueue' = [analyticsQueue EXCEPT !.lost = @ + t.n]
            /\ UNCHANGED d1Events
  /\ unhandled' = (unhandled \/ FallbackSettles(t.by, outcome) = "rejected")
  /\ UNCHANGED <<sessionVars, authCall, queryCall, deleted, env, secrets, clock, projects, usage,
                 projectsCache, cacheLoadedAt, req, resp, lastAuth, started, acked, dirty>>

\* mutant of Settle: the batch is acknowledged whatever the write did
SettleAlwaysAcks(wrote) == [ackAll |-> 1, retryAll |-> 0]

\* queue(batch, env): try { await db.trackBatch(events); batch.ackAll() }
\* catch { batch.retryAll() }: the calls made on the batch
Settle(wrote) ==
  IF wrote THEN [ackAll |-> 1, retryAll |-> 0] ELSE [ackAll |-> 0, retryAll |-> 1]

\* the consumer is handed a batch of k of the queued events and the write ends
\* with outcome; acknowledged messages leave the queue, retried ones stay
Queue(k, outcome) ==
  /\ k \in 1..Min(analyticsQueue.messages, MaxBatchSize)
  /\ LET wrote == outcome = "ok"
         calls == Settle(wrote)
     IN /\ d1Events' = IF wrote THEN [d1Events EXCEPT !["site"] = @ + k] ELSE d1Events
        /\ analyticsQueue' =
             [analyticsQueue EXCEPT
                !.messages = IF calls.retryAll > 0 THEN @ ELSE @ - k * calls.ackAll,
                !.consumed = IF wrote THEN @ + k ELSE @,
                !.last = [size |-> k, wrote |-> wrote, ackAll |-> calls.ackAll,
                          retryAll |-> calls.retryAll]]
  /\ UNCHANGED <<sessionVars, authCall, queryCall, deleted, env, secrets, clock, projects, usage,
                 projectsCache, cacheLoadedAt, req, resp, lastAuth, tasks, started, acked,
                 dirty, unhandled>>

(***************************************************************************)
(* Specifications                                                          *)
(***************************************************************************)
\* the session store, ingestion only: trackEvent and trackBatch in any order
SessionNext ==
  \/ \E e \in EventInputs, fail \in FailPoints : TrackEvent(e, fail)
  \/ \E evts \in Batches, fail \in FailPoints : TrackBatch(evts, fail)

SpecSessions == Init /\ [][SessionNext]_vars

\* the session store, ingestion mixed with direct upsertSession calls
UpsertNext ==
  \/ \E e \in FewEvents, fail \in FailPoints : TrackEvent(e, fail)
  \/ \E evts \in FewBatches, fail \in FailPoints : TrackBatch(evts, fail)
  \/ \E d \in SessionData : UpsertSession(d)

SpecUpserts == Init /\ [][UpsertNext]_vars

\* ingestion requests of one existing project within one cache lifetime
TrackNext ==
  \/ \E slot \in ReqIds, input \in IngestRequests : StartRequest(slot, input)
  \/ \E slot \in ReqIds : LoadRead(slot)
  \/ \E slot \in ReqIds : LoadFinish(slot)
  \/ \E slot \in ReqIds : CheckRateLimit(slot)
  \/ \E t \in BagToSet(tasks), outcome \in {"ok", "error"} : RunTask(t, outcome)

SpecTrack == Init /\ [][TrackNext]_vars

\* /track/batch requests of every shape against one existing project, up to the
\* return of handleRequest
BatchNext ==
  \/ \E slot \in ReqIds, input \in BatchShapes : StartRequest(slot, input)
  \/ \E slot \in ReqIds : LoadRead(slot)
  \/ \E slot \in ReqIds : LoadFinish(slot)

SpecBatch == Init /\ [][BatchNext]_vars

\* /track and POST /projects in every configuration of tokens, up to the return
\* of handleRequest
OpenNext ==
  \/ \E slot \in ReqIds, input \in TrackShapes : StartRequest(slot, input)
  \/ \E slot \in ReqIds : LoadRead(slot)
  \/ \E slot \in ReqIds : LoadFinish(slot)
  \/ \E slot \in ReqIds : CheckRateLimit(slot)
  \/ \E slot \in ReqIds : ListProjects(slot)
  \/ \E slot \in ReqIds : InsertProject(slot)
  \/ \E slot \in ReqIds : FinishCreate(slot)

SpecOpen == InitOpen /\ [][OpenNext]_vars

\* the read endpoints in every configuration of keys, up to the return of
\* handleRequest
ReadsNext ==
  \/ \E slot \in ReqIds, input \in ReadShapes : StartRequest(slot, input)
  \/ \E slot \in ReqIds : LoadRead(slot)
  \/ \E slot \in ReqIds : LoadFinish(slot)
  \/ \E slot \in ReqIds : ReadStore(slot)

SpecReads == InitReads /\ [][ReadsNext]_vars

\* ingestion, reads and deletion of one project next to another owner's, with
\* the deferred writes
TenantNext ==
  \/ \E slot \in ReqIds, input \in TenantShapes : StartRequest(slot, input)
  \/ \E slot \in ReqIds : LoadRead(slot)
  \/ \E slot \in ReqIds : LoadFinish(slot)
  \/ \E slot \in ReqIds : CheckRateLimit(slot)
  \/ \E slot \in ReqIds : ReadStore(slot)
  \/ \E slot \in ReqIds : GetProject(slot)
  \/ \E slot \in ReqIds : DeleteRows(slot)
  \/ \E slot \in ReqIds : FinishDelete(slot)
  \/ \E t \in BagToSet(tasks), outcome \in {"ok", "error"} : RunTask(t, outcome)

SpecTenant == InitTenants /\ [][TenantNext]_vars

\* POST /projects with generated tokens and keys that can repeat, up to the
\* return of handleRequest
CreateNext ==
  \/ \E slot \in ReqIds, input \in CreateRequests : StartRequest(slot, input)
  \/ \E slot \in ReqIds : LoadRead(slot)
  \/ \E slot \in ReqIds : LoadFinish(slot)
  \/ \E slot \in ReqIds : ListProjects(slot)
  \/ \E slot \in ReqIds, p \in ProjectIds, q \in ProjectIds :
       InsertRow(slot, TokenOf(p), KeyOf(q))
  \/ \E slot \in ReqIds : FinishCreate(slot)

SpecCreate == InitOpen /\ [][CreateNext]_vars

\* /track with a timestamp that is a date or not and POST /projects whose
\* generated token or key can repeat, with loads of the cache that can fail
ErrorNext ==
  \/ \E slot \in ReqIds,
        input \in { i \in TrackShapes :
                    i.valid /\ i.body = "site" /\ (i.kind = "track" => i.token = TokenOf("p1")) } :
       StartRequest(slot, input)
  \/ \E slot \in ReqIds : LoadRead(slot)
  \/ \E slot \in ReqIds : LoadFails(slot)
  \/ \E slot \in ReqIds : LoadFinish(slot)
  \/ \E slot \in ReqIds : CheckRateLimit(slot)
  \/ \E slot \in ReqIds : ListProjects(slot)
  \/ \E slot \in ReqIds, p \in ProjectIds, q \in ProjectIds :
       InsertRow(slot, TokenOf(p), KeyOf(q))
  \/ \E slot \in ReqIds : FinishCreate(slot)

SpecErrors == Init /\ [][ErrorNext]_vars

\* the Worker with and without a queue: fetch, the enqueue chain, the direct
\* writes and the queue consumer
QueueNext ==
  \/ \E platform \in {"cloudflare", "core"}, queueOn \in BOOLEAN, n \in 1..MaxBatch :
       Fetch(platform, queueOn, n)
  \/ \E t \in BagToSet(tasks), outcome \in {"ok", "error"} : SendBatch(t, outcome)
  \/ \E t \in BagToSet(tasks), outcome \in {"ok", "error"} : FallbackWrite(t, outcome)
  \/ \E t \in { x \in BagToSet(tasks) : x.op = "trackBatch" }, outcome \in {"ok", "error"} :
       RunTask(t, outcome)
  \/ \E k \in 1..(MaxRequests * MaxBatch), outcome \in {"ok", "error"} : Queue(k, outcome)

SpecQueue == Init /\ [][QueueNext]_vars

\* /track requests of one project handled strictly one after another: a request
\* arrives only when no other is being handled and every deferred write of the
\* earlier ones has settled
SerialNext ==
  \/ \E slot \in ReqIds, input \in { i \in IngestRequests : i.kind = "track" } :
       /\ \A s \in ReqIds : req[s].pc = "idle"
       /\ tasks = EmptyBag
       /\ StartRequest(slot, input)
  \/ \E slot \in ReqIds : LoadRead(slot)
  \/ \E slot \in ReqIds : LoadFinish(slot)
  \/ \E slot \in ReqIds : CheckRateLimit(slot)
  \/ \E t \in BagToSet(tasks), outcome \in {"ok", "error"} : RunTask(t, outcome)

SpecSerial == Init /\ [][SerialNext]_vars

\* the deletion of project p1, alone or next to p2, among requests that present
\* p1's token or key, up to the return of handleRequest
DeleteNext ==
  \/ \E slot \in ReqIds,
        input \in { i \in TenantShapes :
                    i.body = "site" /\ i.kind # "batch" /\ i.key \in {NoString, KeyOf("p1")} } :
       StartRequest(slot, input)
  \/ \E slot \in ReqIds : LoadRead(slot)
  \/ \E slot \in ReqIds : LoadFinish(slot)
  \/ \E slot \in ReqIds : CheckRateLimit(slot)
  \/ \E slot \in ReqIds : ReadStore(slot)
  \/ \E slot \in ReqIds : GetProject(slot)
  \/ \E slot \in ReqIds : DeleteRows(slot)
  \/ \E slot \in ReqIds : FinishDelete(slot)

SpecDelete == (Init \/ InitTenants) /\ [][DeleteNext]_vars

\* POST /projects of one owner who has two projects, up to the return of
\* handleRequest
LimitNext ==
  \/ \E slot \in ReqIds, input \in { i \in CreateRequests : i.valid } : StartRequest(slot, input)
  \/ \E slot \in ReqIds : LoadRead(slot)
  \/ \E slot \in ReqIds : LoadFinish(slot)
  \/ \E slot \in ReqIds : ListProjects(slot)
  \/ \E slot \in ReqIds : InsertProject(slot)
  \/ \E slot \in ReqIds : FinishCreate(slot)

SpecLimit ==
  /\ Boot({"p2", "p3"}, NoString, NoString) /\ authCall = NoCall /\ queryCall = NoQuery
  /\ [][LimitNext]_vars

\* validateWriteAccess called directly
SpecWrite == InitWrite /\ [][CallValidateWriteAccess]_vars

\* the write-token validators called directly
AuthNext ==
  \/ CallValidateProjectToken
  \/ CallValidateWrite

SpecAuth == InitAuth /\ [][AuthNext]_vars

\* project creation, the project cache and the clock
CacheNext ==
  \/ \E slot \in ReqIds, input \in CacheRequests : StartRequest(slot, input)
  \/ \E slot \in ReqIds : LoadRead(slot)
  \/ \E slot \in ReqIds : LoadFails(slot)
  \/ \E slot \in ReqIds : LoadFinish(slot)
  \/ \E slot \in ReqIds : CheckRateLimit(slot)
  \/ \E slot \in ReqIds : ListProjects(slot)
  \/ \E slot \in ReqIds : InsertProject(slot)
  \/ \E slot \in ReqIds : FinishCreate(slot)
  \/ \E t \in BagToSet(tasks), outcome \in {"ok", "error"} : RunTask(t, outcome)
  \/ Tick

SpecCache == Init /\ [][CacheNext]_vars

\* /query requests of every shape, each handled by one of the implementations
QueryNext == \E nanOutcome \in NanOutcomes : HandleQuery(nanOutcome)

SpecQuery == InitQuery /\ [][QueryNext]_vars

(***************************************************************************)
(* Claims about the session store                                          *)
(***************************************************************************)
\* the event rows carrying session_id sid
RowsOf(sid) == { r \in BagToSet(events) : r.session_id = sid }

\* the page a client means by an event's properties: path, else url, else none
PageOfRow(r) ==
  IF r.properties.kind # "object" THEN NULL
  ELSE IF r.properties.path # NULL THEN r.properties.path
  ELSE r.properties.url

\* C1: three events of one session with timestamps T1 < T2 < T3, ingested in any
\* order, leave a session row with event_count 3, is_bounce 0, start_time T1,
\* end_time T3, duration T3 - T1, entry_page the page of the T1 event and
\* exit_page the page of the T3 event.
C1_ThreeEventsAnyOrder ==
  \A sid \in SessionIds :
    (EventsOf(sid) = 3 /\ Cardinality({ r.timestamp : r \in RowsOf(sid) }) = 3) =>
      LET first == CHOOSE r \in RowsOf(sid) : \A q \in RowsOf(sid) : r.timestamp <= q.timestamp
          last  == CHOOSE r \in RowsOf(sid) : \A q \in RowsOf(sid) : r.timestamp >= q.timestamp
      IN /\ sid \in DOMAIN sessions
         /\ sessions[sid].event_count = 3
         /\ sessions[sid].is_bounce = 0
         /\ sessions[sid].start_time = first.timestamp
         /\ sessions[sid].end_time = last.timestamp
         /\ sessions[sid].duration = last.timestamp - first.timestamp
         /\ sessions[sid].entry_page = PageOfRow(first)
         /\ sessions[sid].exit_page = PageOfRow(last)

\* three events of s1 at three different times whose first and last pages differ
C1_Witness ==
  /\ EventsOf("s1") = 3
  /\ Cardinality({ r.timestamp : r \in RowsOf("s1") }) = 3
  /\ "s1" \in DOMAIN sessions
  /\ sessions["s1"].entry_page = "/b"
  /\ sessions["s1"].exit_page = "/a"
  /\ sessions["s1"].duration = MaxTs - 1

\* C2: under every interleaving of trackEvent and trackBatch calls each session's
\* event_count is the number of event rows carrying its session_id, and a
\* session_id without a row has no event row.
C2_CountMatchesEvents ==
  \A sid \in SessionIds :
    IF sid \in DOMAIN sessions
      THEN sessions[sid].event_count = EventsOf(sid)
      ELSE EventsOf(sid) = 0

\* both sessions exist and s2 has taken two contributions, s1 one
C2_Witness ==
  /\ DOMAIN sessions = SessionIds
  /\ sessions["s2"].event_count = 2
  /\ sessions["s1"].event_count = 1
  /\ BagCardinality(events) = 3

\* C3 (as claimed): every session row has is_bounce = 1 exactly when its
\* event_count is at most 1, also after upsertSession calls carrying a count.
C3_BounceMatchesCount ==
  \A sid \in DOMAIN sessions :
    (sessions[sid].is_bounce = 1) <=> (sessions[sid].event_count <= 1)

\* C4: for every session, start_time is the least and end_time the greatest
\* timestamp contributed so far, duration is end_time - start_time and is not
\* negative; a row exists exactly when something was contributed.
C4_StartEndDuration ==
  \A sid \in SessionIds :
    IF contrib[sid] = {} THEN sid \notin DOMAIN sessions
    ELSE /\ sid \in DOMAIN sessions
         /\ \A t \in contrib[sid] : sessions[sid].start_time <= t /\ t <= sessions[sid].end_time
         /\ sessions[sid].start_time \in contrib[sid]
         /\ sessions[sid].end_time \in contrib[sid]
         /\ sessions[sid].duration = sessions[sid].end_time - sessions[sid].start_time
         /\ sessions[sid].duration >= 0

\* a session that a direct upsert and an event both reached, its start lowered
\* after its creation
C4_Witness ==
  /\ upserts >= 1
  /\ EventsOf("s1") >= 1
  /\ "s1" \in DOMAIN sessions
  /\ sessions["s1"].start_time = 1
  /\ sessions["s1"].end_time = MaxTs
  /\ sessions["s1"].entry_page = "/a"
  /\ sessions["s1"].exit_page = "/b"

Arrives == started' = started + 1

\* the arriving request starts a load of the project cache
Reloads == \E slot \in ReqIds : req[slot].pc = "idle" /\ req'[slot].pc = "load"

\* the step is the rate-limit check of a /track request that answers 429
Answers429 ==
  \E slot \in ReqIds : req[slot].pc = "usage" /\ req'[slot].pc = "idle" /\ resp'.status = 429

\* C6: POST /track for a project of the cache whose usage event_count for today,
\* as getUsageToday returns it, is greater than or equal to rate_limit_events is
\* answered 429 with the configured limit, returns no writeOps, and the step that
\* answers queues no event write and no usage increment and changes neither the
\* events nor the usage table.
C6_TrackRateLimited ==
  /\ [](resp.kind = "track" /\ resp.project # NULL /\ resp.usageSeen >= RateLimitEvents
          => resp.status = 429 /\ resp.limit = RateLimitEvents /\ resp.writeOps = 0)
  /\ [][Answers429 => UNCHANGED <<tasks, usage, d1Events>>]_vars

\* a /track request of project p1 was answered 429 after the usage of p1 had
\* reached the limit through increments of earlier accepted requests
C6_Witness ==
  /\ resp.kind = "track" /\ resp.project = "p1" /\ resp.status = 429
  /\ resp.usageSeen >= RateLimitEvents
  /\ GetUsageToday("p1").event_count >= RateLimitEvents

\* C7: POST /track/batch for a project of the cache whose usage event_count for
\* today has reached rate_limit_events when the batch is handled is answered 429
\* and returns no writeOps.
C7_BatchRateLimited ==
  resp.kind = "batch" /\ resp.project # NULL /\ resp.usageSeen >= RateLimitEvents
    => resp.status = 429 /\ resp.writeOps = 0

\* C8: a /track or /track/batch request that passed validation, authorization and
\* the rate-limit check is answered 200, and no writeOps entry ever rejects.
C8_AcceptedAnswers200 ==
  /\ resp.accepted => resp.status = 200
  /\ ~unhandled

\* C9: the project cache a request authenticates against contains every project
\* whose POST /projects had returned 201 when the request arrived.
C9_CreatedProjectInCache == lastAuth.acked \subseteq lastAuth.ctx

\* C10: a request that arrives while the loaded cache is no older than the TTL
\* starts no load; a request that arrives when the loaded cache is older than the
\* TTL starts one; the first request that arrives after invalidateCache() starts
\* one.
C10_TtlAndInvalidate ==
  [][Arrives =>
       /\ (projectsCache.loaded /\ Now - cacheLoadedAt <= CACHE_TTL_MS) => ~Reloads
       /\ (projectsCache.loaded /\ Now - cacheLoadedAt > CACHE_TTL_MS) => Reloads
       /\ dirty => Reloads]_vars

(***************************************************************************)
(* Claims about the validation and authorization of ingestion requests     *)
(***************************************************************************)
\* the events field of a batch is absent, no array, empty, or longer than 100
BadBatchSize(input) ==
  input.kind = "batch" /\ (input.events # "array" \/ input.n = 0 \/ input.n > 100)

\* the step is one in which handleRequest returns
Responds ==
  \/ Arrives /\ \A slot \in ReqIds : req'[slot].pc = req[slot].pc
  \/ \E slot \in ReqIds : req[slot].pc \notin {"idle", "load"} /\ req'[slot].pc = "idle"

C12_BadBatchBeforeStore ==
  \A slot \in ReqIds : req[slot].pc # "idle" => ~BadBatchSize(req[slot].input)

\* C13: no batch handed to the store by /track/batch holds an entry that lacks
\* project or event.
C13_BatchEntriesComplete ==
  \A t \in BagToSet(tasks) : t.op = "trackBatch" => t.complete

SizedBatch == resp.input.kind = "batch" /\ ~BadBatchSize(resp.input)

\* what validateProjectToken says of a token against the static list and the
\* cache the last authentication used
AuthOf(token) == ValidateProjectToken(token, env.projectTokens, lastAuth.ctx)

\* C15: a /track/batch request is authorized by its top-level token alone when
\* that token is present, whatever the token of its first event is, and by the
\* token of its first event only when the top-level token is absent: it is
\* answered 403 exactly if that token is not valid, and the project it counts for
\* is the project of that token.
C15_TopLevelTokenWins ==
  SizedBatch =>
    LET token == IF TruthyStr(resp.input.token) THEN resp.input.token
                                                ELSE resp.input.eventToken
    IN /\ resp.status = 403 <=> ~AuthOf(token).valid
       /\ resp.status # 403 => resp.project = AuthOf(token).project

\* a batch with an unknown top-level token whose first event carries the token of
\* the cached project p1 was answered 403
C15_Witness ==
  /\ SizedBatch
  /\ resp.input.token = BadToken /\ resp.input.eventToken = TokenOf("p1")
  /\ "p1" \in lastAuth.ctx
  /\ resp.status = 403

\* the step answers a /track request that holds project and event but no token
AnswersTokenless ==
  Responds /\ resp'.input.kind = "track" /\ resp'.input.valid
           /\ ~TruthyStr(resp'.input.token)

\* C16: a /track request with project and event but no token is answered 200 when
\* the static list is empty and the cache it is checked against holds no project,
\* and 403 when the static list is not empty or a project existed (its creation
\* had been answered) when the request arrived.
C16_OpenUntilConfigured ==
  [][AnswersTokenless =>
       /\ (~TruthyStr(env.projectTokens) /\ lastAuth'.ctx = {}) => resp'.status = 200
       /\ (TruthyStr(env.projectTokens) \/ lastAuth'.acked # {}) => resp'.status = 403]_vars

\* C19: every event write queued by a request that was authorized by the token
\* of a project goes under the name of that project.
C19_WriteUnderTokenProject ==
  \A t \in BagToSet(tasks) :
    (t.op \in {"trackEvent", "trackBatch"} /\ t.by # NULL) => t.project = NameOf(t.by)

(***************************************************************************)
(* Claims about the validators and the read endpoints                      *)
(***************************************************************************)
\* t is one of the pieces the commas cut the list into, as it stands
IsPiece(list, t) ==
  \E a \in 1..(Len(list) + 1), b \in 0..Len(list) :
    /\ a <= b + 1
    /\ a = 1 \/ list[a - 1] = ","
    /\ b = Len(list) \/ list[b + 1] = ","
    /\ \A k \in a..b : list[k] # ","
    /\ t = SubSeq(list, a, b)

\* t is a piece of the list without the blanks around it
IsEntry(list, t) ==
  /\ t # <<>> => (t[1] # " " /\ t[Len(t)] # " ")
  /\ \E piece \in { SubSeq(list, a, b) : a \in 1..(Len(list) + 1), b \in 0..Len(list) } :
       /\ IsPiece(list, piece)
       /\ \E i \in 1..(Len(piece) + 1), j \in 0..Len(piece) :
            /\ t = SubSeq(piece, i, j)
            /\ \A k \in 1..(i - 1) : piece[k] = " "
            /\ \A k \in (j + 1)..Len(piece) : piece[k] = " "

\* the key is the api_key of a project of the cache or a piece of the static list
KeyKnown(key, ids) ==
  /\ key # NoString
  /\ \/ \E p \in ids : KeyOf(p) = key
     \/ env.apiKeys # NoString /\ IsPiece(env.apiKeys, key)

\* C17: in every configuration of keys a read request (/stats, /events, /query,
\* /properties) gets past the authorization exactly if the key it presents is
\* the api_key of a project of the cache or a member of the static key list; it
\* is answered 401 otherwise, also when no key is configured anywhere.
C17_ReadsNeedKnownKey ==
  resp.kind \in ReadKinds =>
    (resp.status # 401 <=> KeyKnown(resp.input.key, lastAuth.ctx))

\* with no key list and no project, a read that presents a key was answered 401
C17_Witness ==
  /\ resp.kind \in ReadKinds /\ resp.input.key = <<"a">>
  /\ env.apiKeys = NoString /\ lastAuth.ctx = {} /\ projects = {}
  /\ resp.status = 401

\* C18: with a static token list configured, the write-token validators return
\* valid for a token only if the token is exactly one of the entries of the list;
\* an absent token is invalid.
C18_OnlyListMembers ==
  (authCall.fn # NULL /\ authCall.list # NoString /\ authCall.valid)
    => authCall.token # NoString /\ IsEntry(authCall.list, authCall.token)

\* C18 as the code has it: with a static token list configured, a token is valid
\* exactly if it is non-empty and either exactly one of the entries of the list
\* or the project_token of a project of the cache; an absent token is invalid.
C18_ListMembersOrCache ==
  (authCall.fn # NULL /\ authCall.list # NoString)
    => (authCall.valid <=>
          /\ authCall.token # NoString
          /\ \/ IsEntry(authCall.list, authCall.token)
             \/ \E p \in authCall.ids : TokenOf(p) = authCall.token)

\* validateProjectToken was called with the list "x, 1" cut to "x,1", without a
\* cache, and found the second entry valid
C18_Witness ==
  /\ authCall.fn = "validateProjectToken" /\ authCall.ids = {}
  /\ authCall.list = <<"x", ",", "1">> /\ authCall.token = <<"1">>
  /\ authCall.valid

\* C20: a read answered 200 to a request that a project's API key authorized
\* holds the data of that project: the rows under its name, or the usage of its id.
C20_ReadsOwnProjectOnly ==
  (resp.kind \in ReadKinds \cup {"usage"} /\ resp.status = 200 /\ resp.project # NULL)
    => resp.data.project \in {resp.project, NameOf(resp.project)}


(***************************************************************************)
(* Claims about the query engine                                           *)
(***************************************************************************)
\* the metrics and group_by the request asks for (the defaults when absent)
RequestedMetrics ==
  IF queryCall.body.metrics = Absent THEN <<"event_count">> ELSE queryCall.body.metrics

RequestedGroupBy ==
  IF queryCall.body.group_by = Absent THEN <<>> ELSE queryCall.body.group_by

\* a /query request with a valid key and a project has been answered
QueryAnswered ==
  queryCall.pc = "done" /\ queryCall.auth /\ queryCall.body.project # NULL

\* the request names a metric or a group_by outside the documented allowlists
NamesUnknown ==
  \/ \E i \in 1..Len(RequestedMetrics) :
       RequestedMetrics[i] \notin
         {"event_count", "unique_users", "session_count", "bounce_rate", "avg_duration"}
  \/ \E i \in 1..Len(RequestedGroupBy) :
       RequestedGroupBy[i] \notin {"event", "date", "user_id", "session_id"}

\* C21: a /query naming a metric or a group_by outside the allowlists is
\* answered 400 with a message that lists the allowed values, and its statement
\* is never run against the store
C21_UnknownNameIs400 ==
  (QueryAnswered /\ NamesUnknown) =>
    /\ queryCall.status = 400
    /\ queryCall.plan.error.kind \in {"invalid metric", "invalid group_by"}
    /\ queryCall.plan.error.allowed # {}
    /\ queryCall.plan.error.allowed \in
         {ALLOWED_METRICS(queryCall.impl), ALLOWED_GROUP_BY(queryCall.impl)}
    /\ ~queryCall.executed

\* a known metric followed by an unknown one has been rejected by the current
\* SqliteAdapter
C21_Witness ==
  /\ QueryAnswered
  /\ queryCall.impl = "sqlite"
  /\ queryCall.body.metrics = <<"event_count", Bogus>>
  /\ queryCall.status = 400
  /\ ~queryCall.executed

\* the filter names a field or an operator outside the allowlists
FilterOutside(f) ==
  \/ f.field \notin FILTERABLE_FIELDS /\ ~StartsWithProperties(f.field)
  \/ f.op \notin DOMAIN FILTER_OPS

\* C22: a filter whose field or operator is outside the allowlists makes the
\* request a 400 that enumerates the permitted values (here: for filters that
\* carry field, op and value, in requests whose metrics and group_by are known)
C22_FilterOutsideIs400 ==
  (/\ QueryAnswered
   /\ ~NamesUnknown
   /\ \E i \in 1..Len(queryCall.body.filters) :
        /\ ~FilterSkipped(queryCall.body.filters[i])
        /\ FilterOutside(queryCall.body.filters[i]))
  => /\ queryCall.status = 400
     /\ queryCall.plan.error.allowed # {}
     /\ ~queryCall.executed

\* C23: in every statement that is run, the operator of each where part is one
\* of the SQL operators, its field one of the filterable fields, and a key
\* interpolated into json_extract is a safe identifier; the values are bound
C23_OnlySafeKeysInText ==
  (queryCall.pc = "done" /\ queryCall.executed) =>
    /\ \A i \in 1..Len(queryCall.plan.where) :
         LET part == queryCall.plan.where[i]
         IN /\ part.op \in {FILTER_OPS[o] : o \in DOMAIN FILTER_OPS}
            /\ IF part.field # NULL THEN <<part.field>> \in FILTERABLE_FIELDS
                                    ELSE part.key = <<>> \/ SafeKey(part.key)
    /\ Len(queryCall.plan.params) = 3 + Len(queryCall.plan.where) + 1

\* the sort field the documentation describes
DocumentedOrderField ==
  IF queryCall.body.order_by \in {"event_count", "unique_users", "date", "event"}
    THEN queryCall.body.order_by
  ELSE IF \E i \in 1..Len(RequestedGroupBy) : RequestedGroupBy[i] = "date" THEN "date"
  ELSE IF RequestedMetrics = <<>> THEN "event_count"
  ELSE RequestedMetrics[1]

\* C24: the sort field of a compiled query is the allowed order_by, else date
\* when grouping by date, else the first requested metric
C24_SortField ==
  (QueryAnswered /\ queryCall.executed) =>
    queryCall.plan.orderField = DocumentedOrderField

\* C25: whatever limit the client sends, the bound limit lies in 1..1000 and
\* is 100 when none is sent, at most 1000 rows are returned, and count is the
\* number of rows returned
C25_LimitClamped ==
  (QueryAnswered /\ queryCall.executed) =>
    /\ ~queryCall.plan.limit.nan
    /\ queryCall.plan.limit.n \in 1..MaxRows
    /\ queryCall.body.limit.given = "absent" => queryCall.plan.limit.n = DefaultLimit
    /\ queryCall.rows <= MaxRows
    /\ queryCall.count = queryCall.rows

(***************************************************************************)
(* Claims about usage accounting and project deletion                      *)
(***************************************************************************)
\* the usage row of project p in table u, counters 0 when there is none
UsageRow(u, p) ==
  IF p \in DOMAIN u THEN u[p] ELSE [event_count |-> 0, read_count |-> 0]

\* from row a to row b exactly one counter grew, by exactly 1
OneMore(a, b) ==
  \/ b.event_count = a.event_count + 1 /\ b.read_count = a.read_count
  \/ b.read_count = a.read_count + 1 /\ b.event_count = a.event_count

\* C26: while a project exists its usage row of the day never disappears and
\* its counters never decrease; a step that changes the row is one increment:
\* it adds exactly 1 to one counter and leaves the other (0 in a row it creates)
C26_UsageCounts ==
  [][\A p \in projects \cap projects' :
       /\ p \in DOMAIN usage => p \in DOMAIN usage'
       /\ \/ p \in DOMAIN usage' /\ OneMore(UsageRow(usage, p), UsageRow(usage', p))
          \/ p \in DOMAIN usage /\ usage'[p] = usage[p]
          \/ p \notin DOMAIN usage /\ p \notin DOMAIN usage']_vars

\* the row of p1 was created by an increment of one counter and then updated
\* by increments of both
C26_Witness ==
  /\ "p1" \in projects
  /\ "p1" \in DOMAIN usage
  /\ usage["p1"].event_count = 2
  /\ usage["p1"].read_count = 1

\* the tasks the step adds
AddedTasks == tasks' (-) tasks

\* the pending usage increments of project p
PendingIncrements(p) ==
  BagCardinality([t \in {x \in BagToSet(tasks) : x.op = "incrementUsage" /\ x.project = p}
                    |-> tasks[t]])

\* C27: the step that accepts a batch of n events with a project's token adds
\* exactly one event-write task for n rows and n usage increments of 1 for that
\* project; an increment that runs adds exactly 1 to the project's event_count
\* or, failing, nothing; so after a single batch the count plus the pending
\* increments never exceeds n, and reaches n when all succeed
C27_BatchIncrementsPerEvent ==
  /\ [][(Responds /\ resp'.kind = "batch" /\ resp'.status = 200 /\ resp'.project # NULL) =>
          /\ resp'.writeOps = resp'.input.n + 1
          /\ BagCardinality(AddedTasks) = resp'.input.n + 1
          /\ \E w \in BagToSet(AddedTasks) :
               /\ w.op = "trackBatch" /\ w.n = resp'.input.n /\ AddedTasks[w] = 1
               /\ \A t \in BagToSet(AddedTasks) \ {w} :
                    /\ t.op = "incrementUsage" /\ t.project = resp'.project /\ t.n = 1
                    /\ AddedTasks[t] = resp'.input.n]_vars
  /\ [][\A t \in BagToSet(tasks) :
          (t.op = "incrementUsage" /\ tasks' = tasks (-) SetToBag({t}) /\ t.project \in projects) =>
             \/ usage' = usage
             \/ /\ UsageRow(usage', t.project).event_count =
                     UsageRow(usage, t.project).event_count + 1
                /\ t.project \in DOMAIN usage']_vars
  /\ []((started = 1 /\ resp.kind = "batch" /\ resp.status = 200 /\ resp.project # NULL) =>
          UsageRow(usage, resp.project).event_count + PendingIncrements(resp.project)
            <= resp.input.n)

\* a single batch of two events was accepted, all its tasks have run, and the
\* event_count of its project is 2
C27_Witness ==
  /\ started = 1
  /\ resp.kind = "batch" /\ resp.status = 200 /\ resp.project = "p1"
  /\ resp.input.n = 2
  /\ tasks = EmptyBag
  /\ UsageRow(usage, "p1").event_count = 2
  /\ d1Events["site"] = 2

\* C28: once the deletion of project p1 is answered 200, the store holds no
\* usage row of p1 and no event row ingested with p1's token (every event of
\* this specification is ingested with p1's token)
C28_DeleteLeavesNothing ==
  (resp.kind = "delete" /\ resp.status = 200) =>
    /\ "p1" \notin projects
    /\ "p1" \notin DOMAIN usage
    /\ \A b \in EventProjects : d1Events[b] = 0

(***************************************************************************)
(* Claims about project creation                                           *)
(***************************************************************************)
\* C29: no two rows of projects hold the same project_token and no two the same
\* api_key, and a creation whose generated token or key is already held by a
\* row is answered 500 and leaves the rows as they are
C29_TokensAndKeysUnique ==
  /\ [](/\ DOMAIN secrets = projects
        /\ \A p \in projects, q \in projects :
             p # q => /\ secrets[p].project_token # secrets[q].project_token
                      /\ secrets[p].api_key # secrets[q].api_key)
  /\ [][(Responds /\ resp'.kind = "create" /\ resp'.status = 500) =>
          UNCHANGED <<projects, secrets>>]_vars

\* a creation that generated a held token or key failed next to the one row that
\* holds it
C29_Witness ==
  /\ resp.kind = "create" /\ resp.status = 500
  /\ Cardinality(projects) = 1

(***************************************************************************)
(* Claims about the transactions of the session store                      *)
(***************************************************************************)
\* the event rows a step adds that carry session_id sid
AddedRowsOf(sid) ==
  LET added == events' (-) events
      rows == {r \in BagToSet(added) : r.session_id = sid}
  IN BagCardinality([r \in rows |-> added[r]])

\* the event_count of session sid in table sess, 0 without a row
CountOf(sess, sid) == IF sid \in DOMAIN sess THEN sess[sid].event_count ELSE 0

\* C30: a trackEvent or trackBatch call that fails at any of its statements
\* leaves events and sessions as they were; a call that succeeds adds its event
\* rows together with one session contribution for each row that carries a
\* session_id; no step persists a part of a call
C30_WritesAllOrNothing ==
  [][\/ events' = events /\ sessions' = sessions
     \/ /\ dbResult' = "ok"
        /\ BagCardinality(events' (-) events) >= 1
        /\ events (-) events' = EmptyBag
        /\ \A sid \in SessionIds :
             CountOf(sessions', sid) = CountOf(sessions, sid) + AddedRowsOf(sid)]_vars

\* a failed call left the stored session and its event rows untouched: the
\* session holds two events and the last call threw
C30_Witness ==
  /\ dbResult = "error"
  /\ "s1" \in DOMAIN sessions
  /\ sessions["s1"].event_count = 2
  /\ EventsOf("s1") = 2

(***************************************************************************)
(* Claims about the adapters, the platforms and concurrent requests        *)
(***************************************************************************)
\* the request answered last, as the handler held it when it built writeOps
Answered == [IdleReq EXCEPT !.kind = resp.kind, !.n = resp.input.n, !.tsOk = resp.input.tsOk,
                            !.project = resp.project, !.input = resp.input]

\* C31: a request that passed validation, authorization and the rate limit gets
\* the same status and the same number of pending tasks from the handler on the
\* D1 adapter (the response of the model) as on the SQLite adapter, also when
\* the event write fails while it is prepared.
C31_AdaptersAgree ==
  resp.accepted =>
    /\ AcceptedOn("d1", Answered) = [status |-> resp.status, writeOps |-> resp.writeOps]
    /\ AcceptedOn("sqlite", Answered) = AcceptedOn("d1", Answered)

\* C32: every 500 response a client gets for an unexpected failure, from
\* handleRequest's catch or from the catch of the node server, carries the fixed
\* text "internal server error", whatever the text of the internal error.
C32_GenericMessage ==
  \A platform \in {"node", "cloudflare"} :
    resp.kind # NULL /\ ClientSees(platform, resp).status = 500 =>
      ClientSees(platform, resp).error = "internal server error"

\* the events of the enqueue chains that wait for their fallback write
PendingFallback ==
  LET S == { t \in BagToSet(tasks) : t.op = "fallback" }
      RECURSIVE Sum(_)
      Sum(T) == IF T = {} THEN 0
                ELSE LET t == CHOOSE x \in T : TRUE
                     IN t.n * CopiesIn(t, tasks) + Sum(T \ {t})
  IN Sum(S)

\* C33: with a queue, the events of a failed enqueue get exactly one direct
\* write (done, failed or still to come), the events of a successful enqueue
\* get none, no promise handed to waitUntil rejects when the fallback write
\* fails, and no step after fetch changes the response.
C33_QueueFallback ==
  /\ [](analyticsQueue.direct + analyticsQueue.lost + PendingFallback = analyticsQueue.failed)
  /\ [][\A t \in BagToSet(tasks) :
          (t.op = "sendBatch" /\ analyticsQueue'.messages = analyticsQueue.messages + t.n
             /\ tasks' = tasks (-) SetToBag({t}))
            => d1Events' = d1Events /\ analyticsQueue'.direct = analyticsQueue.direct]_vars
  /\ [](~unhandled)
  /\ [][started' = started => resp' = resp]_vars

\* C39: for the batch the queue consumer handled last exactly one of ackAll and
\* retryAll was called, ackAll if and only if the write succeeded; the messages
\* of a failed batch stay in the queue for redelivery, those of a written batch
\* leave it.
C39_AckOrRetry ==
  /\ [](analyticsQueue.last.size > 0 =>
          /\ analyticsQueue.last.ackAll + analyticsQueue.last.retryAll = 1
          /\ analyticsQueue.last.ackAll = 1 <=> analyticsQueue.last.wrote)
  /\ [][analyticsQueue'.messages =
          analyticsQueue.messages - (analyticsQueue'.consumed - analyticsQueue.consumed)
       ]_<<analyticsQueue.last, analyticsQueue.consumed>>

\* a batch was written and acknowledged, and the batch handled last failed and
\* was handed back for redelivery
C39_Witness ==
  /\ analyticsQueue.consumed > 0
  /\ analyticsQueue.last.size > 0 /\ ~analyticsQueue.last.wrote
  /\ analyticsQueue.last.retryAll = 1 /\ analyticsQueue.last.ackAll = 0
  /\ analyticsQueue.messages >= analyticsQueue.last.size

\* C34: when the /track requests of a project are handled one after another,
\* each deferred increment settling before the next request arrives, the
\* project's event_count of the day never exceeds rate_limit_events.
C34_SerialNeverOver ==
  \A p \in projects : GetUsageToday(p).event_count <= RateLimitEvents

\* the count has reached the limit and the next request was answered 429
C34_Witness ==
  /\ GetUsageToday("p1").event_count = RateLimitEvents
  /\ resp.kind = "track" /\ resp.status = 429 /\ resp.usageSeen = RateLimitEvents
  /\ tasks = EmptyBag

\* C35: the cache a request authenticates against authorizes neither the
\* project_token nor the api_key of a project whose DELETE had been answered
\* with success when the request arrived.
C35_DeletedNotAuthorized ==
  \A p \in lastAuth.gone :
    /\ ~ValidateProjectToken(TokenOf(p), env.projectTokens, lastAuth.ctx).valid
    /\ ~ValidateApiKey(KeyOf(p), env.apiKeys, lastAuth.ctx).valid

\* C36: handleRequest returns a response for every request it handled: it never
\* rejects (status 0), a failure inside it is answered with a 500.
C36_AlwaysResponds ==
  resp.kind # NULL => resp.status # 0

\* the rows of the projects table whose owner_email is email
OwnedBy(email) == { q \in projects : secrets[q].owner_email = email }

\* C37: no owner email owns more than 3 projects, however concurrent
\* POST /projects requests of that email interleave.
C37_AtMostThreePerOwner ==
  \A email \in {"a@x", "b@x"} : Cardinality(OwnedBy(email)) <= ProjectLimit

\* number of event rows carrying session_id sid and project_id project
EventsOfProject(sid, project) ==
  LET rows == { r \in BagToSet(events) : r.session_id = sid /\ r.project_id = project }
      RECURSIVE Sum(_)
      Sum(S) == IF S = {} THEN 0
                ELSE LET r == CHOOSE x \in S : TRUE
                     IN CopiesIn(r, events) + Sum(S \ {r})
  IN Sum(rows)

\* C38: a session row aggregates only events of its own project: its
\* event_count is the number of stored events of that session_id whose
\* project_id is the row's project_id.
C38_OwnProjectOnly ==
  \A sid \in DOMAIN sessions :
    sessions[sid].event_count = EventsOfProject(sid, sessions[sid].project_id)

\* origin is an entry of the comma-separated allowlist, white space around the
\* entries and the case of the letters set aside
OriginListed(origin, allowedOrigins) ==
  /\ origin # NoString
  /\ \E i \in 1..Len(Split(allowedOrigins)) :
       ToLowerCase(Trim(Split(allowedOrigins)[i])) = ToLowerCase(origin)

\* writeKey is an entry of the comma-separated WRITE_KEYS
WriteKeyValid(writeKey, writeKeys) ==
  /\ writeKey # NoString
  /\ \E i \in 1..Len(Split(writeKeys)) : Trim(Split(writeKeys)[i]) = writeKey

\* C40: with ALLOWED_ORIGINS set, validateWriteAccess accepts only a request
\* with a listed Origin or a valid write key; with WRITE_KEYS set, a request
\* that presents a write key which is not valid is rejected whatever its Origin.
C40_OriginOrWriteKey ==
  authCall.fn = "validateWriteAccess" =>
    /\ (authCall.allowed # NoString /\ authCall.valid) =>
         \/ OriginListed(authCall.origin, authCall.allowed)
         \/ WriteKeyValid(authCall.token, authCall.list)
    /\ (authCall.list # NoString /\ authCall.token # NoString
          /\ ~WriteKeyValid(authCall.token, authCall.list)) => ~authCall.valid

====
